---- MODULE Spec2Model ----
(***************************************************************************)
(* Model of the background-job orchestration of the frontend:              *)
(*   - the useJobPolling hook (frontend/src/hooks/useJobPolling.ts),       *)
(*   - the DependencyTreeSection component that consumes it                *)
(*     (frontend/src/components/DependencyTreeSection.tsx),                *)
(*   - the collaborators they talk to (job server, tree storage, registry).*)
(* One action per handler: an action runs a handler up to its next await   *)
(* together with the re-render and the effects the handler's state         *)
(* updates cause.                                                          *)
(***************************************************************************)
EXTENDS Integers, Sequences, FiniteSets, Bags, TLC

\* ------------------------------------------------------------------ bounds
MaxJobs == 2          \* crawl jobs the server creates
MaxReqs == 6          \* network requests issued in one behaviour
MaxDisturbances == 2  \* transport failures, re-renders, prop changes, unmount
MaxPageReqs == 4      \* requests the pages issue in one behaviour
MaxPageFaults == 1    \* of which the transport fails
MaxNavigations == 2   \* pages mounted by the router in one behaviour
MaxMutations == 2     \* creations, deletions and status updates submitted
BasePackages == 20    \* packages the server holds at the start
MaxInFlight == 2      \* unanswered status checks of a job that never ends

\* --------------------------------------------------------------- constants
NoJob == 0
NoError == "null"
NoVersion == "undefined"
NoTree == <<>>

JobIds == 1..MaxJobs

DefaultJobError == "Job failed"
DefaultPollError == "Failed to poll job status"
TransportMessage == "Network Error"
NpmNotOkMessage == "Failed to fetch latest version from npm"
NoVersionMessage == "Could not determine package version"
ServerErrors == {"scan timeout", NoError}

\* the props the parent may pass: one pinned version, one unpinned
PropsSet == { [packageName |-> "left-pad", version |-> "1.0.0"],
              [packageName |-> "lodash",   version |-> NoVersion] }

\* what https://registry.npmjs.org/<name>/latest answers
LatestVersion(name) == IF name = "lodash" THEN "2.0.0" ELSE "1.0.0"

Pairs == { <<"left-pad", "1.0.0">>, <<"lodash", "2.0.0">> }

Outcomes == {"ok", "reject", "notok", "empty"}

VARIABLES
    \* useJobPolling
    status, isPolling, error, onCompleteRef, onErrorRef, timers,
    \* DependencyTreeSection
    packageName, version, tree, loading, sectionError, jobId,
    lifecycle, renderCount,
    \* collaborators
    jobStatus, jobError, jobPair, stored,
    \* network
    requests, issued, faults,
    \* call history
    getCalls, triggerCalls, completeCalls, errorCalls, lastErrorArg,
    lastCallback, errorShown, propChanges

hookVars == <<status, isPolling, error, onCompleteRef, onErrorRef, timers>>
sectionVars == <<packageName, version, tree, loading, sectionError, jobId,
                 lifecycle, renderCount>>
serverVars == <<jobStatus, jobError, jobPair, stored>>
netVars == <<requests, issued, faults>>
historyVars == <<getCalls, triggerCalls, completeCalls, errorCalls,
                 lastErrorArg, lastCallback, errorShown, propChanges>>

VARIABLES
    \* the router and the cache providers of App
    route, instance, cache,
    \* the list APIs' server
    created, deleted, alertStatus,
    \* PackageList
    packages, total, currentPage, search, debouncedSearch, listLoading,
    listError, packageToDelete, addTimeouts, debouncePending,
    \* AlertsDashboard
    alerts, alertsTotal, statusFilter, sortOption, alertsLoading, alertsError,
    \* requests of the pages
    pageReqs, pageIssued, pageFaults,
    \* call history of the pages
    listCalls, lastFetch, mutations, totalBefore,
    \* PackageList's optimistic entries and the timers of handleOptimisticAdd
    optimisticPackages, pollIntervals, removeTimeouts

VARIABLES
    \* the tree handed to the section's useMemo and what it computes
    treeInput, filterTypes, memo, walk

appVars == <<route, instance, cache>>
listServerVars == <<created, deleted, alertStatus>>
packageListVars == <<packages, total, currentPage, search, debouncedSearch,
                     listLoading, listError, packageToDelete, addTimeouts,
                     debouncePending>>
alertsVars == <<alerts, alertsTotal, statusFilter, sortOption, alertsLoading,
                alertsError>>
pageNetVars == <<pageReqs, pageIssued, pageFaults>>
pageHistoryVars == <<listCalls, lastFetch, mutations, totalBefore>>
optimisticVars == <<optimisticPackages, pollIntervals, removeTimeouts>>
pagesVars == <<appVars, listServerVars, packageListVars, alertsVars,
               pageNetVars, pageHistoryVars, optimisticVars>>
treeVars == <<treeInput, filterTypes, memo, walk>>

\* the state of DependencyTreeSection, its poller and their collaborators
jobVars == <<hookVars, sectionVars, serverVars, netVars, historyVars>>
vars == <<jobVars, pagesVars, treeVars>>

Mounted == lifecycle = "mounted"

\* what the environment did so far beyond answering requests: requests it
\* failed, renders it caused (every render after the first), the unmount
Disturbances ==
    faults + (IF renderCount > 0 THEN renderCount - 1 ELSE 0)
           + (IF lifecycle = "unmounted" THEN 1 ELSE 0)

\* ------------------------------------------------------------ collaborators
\* job ids are handed out in order by the server
NextJob == Cardinality({j \in JobIds : jobStatus[j] # "none"}) + 1

\* depsApi.getJobStatus: the server's answer at the time of the request
JobStatusResult(j, out) ==
    IF out = "reject"
    THEN [status |-> "reject", error |-> TransportMessage]
    ELSE [status |-> jobStatus[j], error |-> jobError[j]]

\* depsApi.get: the stored tree, or the error thrown
GetResult(pair, out) ==
    IF out = "reject" THEN [status |-> "reject", error |-> TransportMessage]
    ELSE IF pair \in stored THEN [status |-> "ok", error |-> NoError]
    ELSE [status |-> "not found", error |-> "Dependency tree not found"]

\* fetch(registry): ok with a version, a non-ok response, a body without a
\* version, or a rejected fetch
LookupResult(out) ==
    [status |-> out,
     error  |-> IF out = "reject" THEN TransportMessage ELSE NoError]

\* depsApi.triggerFetch: the id of the job the server created
TriggerResult(out) ==
    IF out = "reject" THEN [status |-> "reject", error |-> TransportMessage]
    ELSE [status |-> "ok", error |-> NoError]

Request(kind, caller, name, ver, vtf, job, cb, res) ==
    [kind |-> kind, caller |-> caller, packageName |-> name,
     version |-> ver, versionToFetch |-> vtf, jobId |-> job, cb |-> cb,
     result |-> res.status, error |-> res.error]

ValidOutcome(kind, out) ==
    /\ kind # "fetchLatest" => out \in {"ok", "reject"}
    /\ out # "ok" => Disturbances < MaxDisturbances

Bump(f, k) == [f EXCEPT ![k] = @ + 1]

\* the requests in flight once r has been answered
Without(r) == requests (-) SetToBag({r})

\* ------------------------------------------------------------ useJobPolling
\* The interval owned by the hook after the polling effect ran for job id j:
\* the cleanup of the previous run clears the old interval first.
EffectTimersNoCleanup(old, j, cb) ==
    IF j = NoJob THEN old ELSE old \cup {[jobId |-> j, cb |-> cb]}
EffectTimersNoInterval(old, j, cb) == {}
EffectTimers(old, j, cb) ==
    IF j = NoJob THEN {} ELSE {[jobId |-> j, cb |-> cb]}

\* The callback pollJobStatus calls: the ref's current value, not the
\* callback that was in scope when the polling loop was created.
StaleCallback(ref, captured) == captured
InvokedCallback(ref, captured) == ref

\* errorMsg of the failed branch
FailedMessage(serverError) ==
    IF serverError # NoError THEN serverError ELSE DefaultJobError

\* errorMsg of the catch branch: the message of an Error, else the default
CatchMessageDefaultOnly(isError, message) == DefaultPollError
CatchMessage(isError, message) == IF isError THEN message ELSE DefaultPollError

\* pollJobStatus up to its await: one getJobStatus request for the job id the
\* closure was created with
PollRequest(j, cb, out) ==
    Request("getJobStatus", "pollJobStatus", "", NoVersion, NoVersion,
            j, cb, JobStatusResult(j, out))

\* ---------------------------------------------------- DependencyTreeSection
FirstRequestWithoutLookup(caller, name, ver, out) ==
    Request("depsGet", caller, name, ver, ver, NoJob, 0,
            GetResult(<<name, ver>>, out))
\* fetchDependencies and onComplete up to their first await: the registry
\* lookup when no version is pinned, else the stored-tree fetch
FirstRequest(caller, name, ver, out) ==
    IF ver # NoVersion
    THEN Request("depsGet", caller, name, ver, ver, NoJob, 0,
                 GetResult(<<name, ver>>, out))
    ELSE Request("fetchLatest", caller, name, ver, NoVersion, NoJob, 0,
                 LookupResult(out))

\* A request leaves the client: it is in flight, and counted
Issue(req, reqs, out) ==
    /\ issued < MaxReqs
    /\ ValidOutcome(req.kind, out)
    /\ requests' = reqs (+) SetToBag({req})
    /\ issued' = issued + 1
    /\ faults' = IF out = "ok" THEN faults ELSE faults + 1
    /\ getCalls' = IF req.kind = "depsGet"
                   THEN Bump(getCalls, <<req.packageName, req.versionToFetch>>)
                   ELSE getCalls

NoIssue(reqs, out) ==
    /\ out = "ok"
    /\ requests' = reqs
    /\ UNCHANGED <<issued, faults, getCalls>>

\* The polling effect's dependencies [jobId, pollInterval, pollJobStatus]
\* (pollJobStatus is memoised on [jobId], pollInterval is never passed): the
\* effect re-runs when the job id changed, not when the callbacks did.
PollingDepsEmpty(jobChanged, callbacksChanged) == FALSE
PollingDeps(jobChanged, callbacksChanged) == jobChanged

\* The fetch effect's dependencies [packageName, version, jobId]
FetchDeps(jobChanged, propsChanged) == jobChanged \/ propsChanged

\* The render that follows the state updates of a handler, and the effects it
\* runs.  st, ip, er are the hook's status, isPolling and error after the
\* handler, ld and se the section's loading and error, j its job id, name and
\* ver its props, cb the callbacks of this render.
Effects(jobChanged, propsChanged, callbacksChanged, j, name, ver, cb, st, ip, er, ld, se, reqs, out) ==
    LET runPoll == PollingDeps(jobChanged, callbacksChanged)
        startsPoll == runPoll /\ j # NoJob
        startsFetch == FetchDeps(jobChanged, propsChanged) /\ j = NoJob
    IN  /\ timers' = IF runPoll THEN EffectTimers(timers, j, cb) ELSE timers
        /\ isPolling' = IF runPoll THEN (j # NoJob) ELSE ip
        /\ error' = IF startsPoll THEN NoError ELSE er
        /\ status' = IF startsPoll THEN "pending" ELSE st
        /\ loading' = IF startsFetch THEN TRUE ELSE ld
        /\ sectionError' = IF startsFetch THEN NoError ELSE se
        /\ IF startsPoll
           THEN Issue(PollRequest(j, cb, out), reqs, out)
           ELSE IF startsFetch
           THEN Issue(FirstRequest("fetchDependencies", name, ver, out),
                      reqs, out)
           ELSE NoIssue(reqs, out)

\* The render after a handler of the section or the hook updated state (the
\* props are the same, and so are the callbacks as far as the model tells them
\* apart).  State updates of an unmounted component are dropped and no effect
\* runs.
Commit(jobChanged, j, name, ver, cb, st, ip, er, ld, se, reqs, out) ==
    IF Mounted
    THEN Effects(jobChanged, FALSE, FALSE, j, name, ver, cb,
                 st, ip, er, ld, se, reqs, out)
    ELSE /\ UNCHANGED <<timers, isPolling, error, status, loading, sectionError>>
         /\ NoIssue(reqs, out)

SetState(old, new) == IF Mounted THEN new ELSE old

\* ------------------------------------------------- the pages' constants
ITEMS_PER_PAGE == 20

Namespaces == {"packages", "alerts", "detail"}
UsePackagesCache == "packages"
UsePackagesCacheForAlerts == "packages"
UseAlertsCache == "alerts"

Routes == {"packages", "alerts", "detail"}
NoRoute == "none"

\* what the user types into the search box, and the names it matches
SearchTerms == {"", "x"}
SearchHits == {1, BasePackages + 1}

StatusFilters == {"all", "resolved"}
SortOptions == {"newest", "oldest", "severity"}
AlertStatuses == {"open", "resolved"}

\* the alerts the server holds: ids in the order the list API returns them
AlertIds == 1..3
Severity == <<2, 3, 2>>

NoPackage == 0
NoFetch == [ns |-> "none", key |-> <<>>, hit |-> FALSE, live |-> FALSE, run |-> 0]

\* no page mounted yet, empty caches, the server's initial data
PagesIdle ==
    /\ route = NoRoute /\ instance = 0
    /\ cache = [ns \in Namespaces |-> <<>>]
    /\ created = 0 /\ deleted = {}
    /\ alertStatus = [a \in AlertIds |-> "open"]
    /\ packages = <<>> /\ total = 0 /\ currentPage = 1
    /\ search = "" /\ debouncedSearch = ""
    /\ listLoading = FALSE /\ listError = NoError
    /\ packageToDelete = NoPackage /\ addTimeouts = {}
    /\ debouncePending = FALSE
    /\ alerts = <<>> /\ alertsTotal = 0
    /\ statusFilter = "all" /\ sortOption = "newest"
    /\ alertsLoading = FALSE /\ alertsError = NoError
    /\ pageReqs = EmptyBag /\ pageIssued = 0 /\ pageFaults = 0
    /\ listCalls = [ns \in Namespaces |-> 0]
    /\ lastFetch = NoFetch /\ totalBefore = 0
    /\ optimisticPackages = <<>> /\ pollIntervals = {} /\ removeTimeouts = {}
    /\ mutations = 0

\* -------------------------------------------------------------------- Init
SectionInit ==
    /\ status = "null" /\ isPolling = FALSE /\ error = NoError
    /\ onCompleteRef = 0 /\ onErrorRef = 0 /\ timers = {}
    /\ \E p \in PropsSet : packageName = p.packageName /\ version = p.version
    /\ tree = NoTree /\ loading = FALSE /\ sectionError = NoError
    /\ jobId = NoJob /\ lifecycle = "created" /\ renderCount = 0
    /\ jobStatus = [j \in JobIds |-> "none"]
    /\ jobError = [j \in JobIds |-> NoError]
    /\ jobPair = [j \in JobIds |-> <<>>]
    /\ stored \in {{}, Pairs}
    /\ requests = EmptyBag /\ issued = 0 /\ faults = 0
    /\ getCalls = [p \in Pairs |-> 0]
    /\ triggerCalls = [p \in Pairs |-> 0]
    /\ completeCalls = [j \in JobIds |-> 0]
    /\ errorCalls = [j \in JobIds |-> 0]
    /\ lastErrorArg = NoError
    /\ lastCallback = [invoked |-> 0, captured |-> 0]
    /\ errorShown = FALSE /\ propChanges = 0

\* the section before any tree was fetched: useMemo returns no stats and
\* no groups, the filter holds its initial selection
NoStats == "null"
NoTreeInput ==
    [loaded |-> FALSE, edges |-> <<>>, bare |-> {}, maintainers |-> {}]
WalkIdle == [pc |-> "idle", stack |-> <<>>, emitted |-> <<>>, steps |-> 0]
TreeIdle ==
    /\ treeInput = NoTreeInput
    /\ filterTypes = <<"prod">>
    /\ memo = [stats |-> NoStats, groupedDeps |-> <<>>]
    /\ walk = WalkIdle

\* the dependency section of a package page, no list page involved
Init == SectionInit /\ PagesIdle /\ TreeIdle

\* ----------------------------------------------------------------- actions
\* First render: the refs hold the first callbacks, the polling effect finds
\* no job id, the fetch effect starts fetchDependencies.
Mount ==
    /\ lifecycle = "created"
    /\ lifecycle' = "mounted"
    /\ renderCount' = 1 /\ onCompleteRef' = 1 /\ onErrorRef' = 1
    /\ \E out \in Outcomes :
         /\ timers' = EffectTimers(timers, NoJob, 1)
         /\ isPolling' = FALSE
         /\ loading' = TRUE /\ sectionError' = NoError
         /\ Issue(FirstRequest("fetchDependencies", packageName, version, out),
                  requests, out)
    /\ UNCHANGED <<status, error, packageName, version, tree, jobId,
                   serverVars, triggerCalls, completeCalls, errorCalls,
                   lastErrorArg, lastCallback, errorShown, propChanges>>
    /\ UNCHANGED <<pagesVars, treeVars>>

\* The component is removed: the polling effect's cleanup clears the interval
Unmount ==
    /\ Mounted
    /\ Disturbances < MaxDisturbances
    /\ lifecycle' = "unmounted"
    /\ timers' = {}
    /\ UNCHANGED <<status, isPolling, error, onCompleteRef, onErrorRef,
                   packageName, version, tree, loading, sectionError, jobId,
                   renderCount, serverVars, netVars, historyVars>>
    /\ UNCHANGED <<pagesVars, treeVars>>

\* A render, while a job is polled, that changes nothing but the identity of
\* the callbacks passed to the hook (a re-render of the parent): the ref
\* effect stores them, and the other effects compare their dependencies.
Rerender ==
    /\ Mounted
    /\ timers # {}
    /\ Disturbances < MaxDisturbances
    /\ renderCount' = renderCount + 1
    /\ onCompleteRef' = renderCount + 1
    /\ onErrorRef' = renderCount + 1
    /\ \E out \in Outcomes :
         Effects(FALSE, FALSE, TRUE, jobId, packageName, version,
                 renderCount + 1, status, isPolling, error, loading,
                 sectionError, requests, out)
    /\ UNCHANGED <<packageName, version, tree, jobId, lifecycle, serverVars,
                   triggerCalls, completeCalls, errorCalls, lastErrorArg,
                   lastCallback, errorShown, propChanges>>
    /\ UNCHANGED <<pagesVars, treeVars>>

\* The parent passes another (packageName, version): new callbacks, and the
\* fetch effect re-runs fetchDependencies (which returns at once while a job
\* id is set).
PropsChange(p) ==
    /\ Mounted
    /\ Disturbances < MaxDisturbances
    /\ <<p.packageName, p.version>> # <<packageName, version>>
    /\ packageName' = p.packageName /\ version' = p.version
    /\ propChanges' = propChanges + 1
    /\ renderCount' = renderCount + 1
    /\ onCompleteRef' = renderCount + 1
    /\ onErrorRef' = renderCount + 1
    /\ errorShown' = FALSE
    /\ \E out \in Outcomes :
         Effects(FALSE, TRUE, TRUE, jobId, p.packageName, p.version,
                 renderCount + 1, status, isPolling, error, loading,
                 sectionError, requests, out)
    /\ UNCHANGED <<tree, jobId, lifecycle, serverVars, triggerCalls,
                   completeCalls, errorCalls, lastErrorArg, lastCallback>>
    /\ UNCHANGED <<pagesVars, treeVars>>

\* setInterval fires: pollJobStatus of the render that created the interval
TimerTick(t) ==
    /\ t \in timers
    /\ \E out \in Outcomes : Issue(PollRequest(t.jobId, t.cb, out), requests, out)
    /\ UNCHANGED <<hookVars, sectionVars, serverVars, triggerCalls,
                   completeCalls, errorCalls, lastErrorArg, lastCallback,
                   errorShown, propChanges>>
    /\ UNCHANGED <<pagesVars, treeVars>>

\* ---- pollJobStatus after its await (useJobPolling.ts 46-62) ----
IsPoll(r) == r \in BagToSet(requests) /\ r.kind = "getJobStatus"

\* pending or running: only setStatus
PollProgress(r) ==
    /\ IsPoll(r) /\ r.result \in {"pending", "running"}
    /\ status' = SetState(status, r.result)
    /\ requests' = Without(r)
    /\ UNCHANGED <<isPolling, error, onCompleteRef, onErrorRef, timers,
                   sectionVars, serverVars, issued, faults, historyVars>>
    /\ UNCHANGED <<pagesVars, treeVars>>

\* completed: setIsPolling(false) and the completion callback, which runs
\* DependencyTreeSection's onComplete up to its first await
PollCompleted(r) ==
    /\ IsPoll(r) /\ r.result = "completed"
    /\ status' = SetState(status, "completed")
    /\ isPolling' = SetState(isPolling, FALSE)
    /\ LET cb == InvokedCallback(onCompleteRef, r.cb)
       IN  /\ lastCallback' = [invoked |-> cb, captured |-> r.cb]
           /\ \E out \in Outcomes :
                Issue(FirstRequest("onComplete", packageName, version, out),
                      Without(r), out)
    /\ completeCalls' = Bump(completeCalls, r.jobId)
    /\ UNCHANGED <<error, onCompleteRef, onErrorRef, timers, sectionVars,
                   serverVars, triggerCalls, errorCalls, lastErrorArg, errorShown,
                   propChanges>>
    /\ UNCHANGED <<pagesVars, treeVars>>

\* DependencyTreeSection's onError (67-71) called by the poller with msg, after
\* the poller set its own status st and error msg
ReportError(r, st, msg) ==
    /\ jobId' = SetState(jobId, NoJob)
    /\ \E out \in Outcomes :
         Commit(jobId # NoJob, NoJob, packageName, version, onCompleteRef,
                st, FALSE, msg, FALSE, msg, Without(r), out)
    /\ errorCalls' = Bump(errorCalls, r.jobId)
    /\ lastErrorArg' = msg
    /\ lastCallback' = [invoked |-> InvokedCallback(onErrorRef, r.cb),
                        captured |-> r.cb]
    /\ errorShown' = (Mounted \/ errorShown)
    /\ UNCHANGED <<onCompleteRef, onErrorRef, packageName, version, tree,
                   lifecycle, renderCount, serverVars, triggerCalls,
                   completeCalls, propChanges>>

\* failed: setIsPolling(false), setError and the error callback
PollFailed(r) ==
    /\ IsPoll(r) /\ r.result = "failed"
    /\ ReportError(r, "failed", FailedMessage(r.error))
    /\ UNCHANGED <<pagesVars, treeVars>>

\* getJobStatus rejected (with an Error, as fetch does): the catch branch;
\* status is not set
PollRejected(r) ==
    /\ IsPoll(r) /\ r.result = "reject"
    /\ ReportError(r, status, CatchMessage(TRUE, r.error))
    /\ UNCHANGED <<pagesVars, treeVars>>

\* ---- fetchDependencies after its awaits (DependencyTreeSection.tsx 87-118)
IsFetch(r, kind) ==
    r \in BagToSet(requests) /\ r.caller = "fetchDependencies" /\ r.kind = kind

\* the registry answered with a version: depsApi.get for it
FetchLookupOk(r) ==
    /\ IsFetch(r, "fetchLatest") /\ r.result = "ok"
    /\ \E out \in Outcomes :
         Issue(Request("depsGet", r.caller, r.packageName, r.version,
                       LatestVersion(r.packageName), NoJob, r.cb,
                       GetResult(<<r.packageName, LatestVersion(r.packageName)>>, out)),
               Without(r), out)
    /\ UNCHANGED <<hookVars, sectionVars, serverVars, triggerCalls,
                   completeCalls, errorCalls, lastErrorArg, lastCallback,
                   errorShown, propChanges>>
    /\ UNCHANGED <<pagesVars, treeVars>>

\* depsApi.get returned the stored tree
FetchGetOk(r) ==
    /\ IsFetch(r, "depsGet") /\ r.result = "ok"
    /\ tree' = SetState(tree, <<r.packageName, r.versionToFetch>>)
    /\ loading' = SetState(loading, FALSE)
    /\ requests' = Without(r)
    /\ UNCHANGED <<hookVars, packageName, version, sectionError, jobId,
                   lifecycle, renderCount, serverVars, issued, faults,
                   historyVars>>
    /\ UNCHANGED <<pagesVars, treeVars>>

IsNotFoundAnyError(r) == r.result # "ok"
\* err instanceof Error && err.message.includes('not found')
IsNotFound(r) == r.result = "not found"

\* depsApi.get threw 'not found': depsApi.triggerFetch; the server creates
\* the job unless the request is lost
FetchGetNotFound(r) ==
    /\ IsFetch(r, "depsGet") /\ IsNotFound(r)
    /\ NextJob <= MaxJobs
    /\ LET pair == <<r.packageName, r.versionToFetch>>
       IN  /\ triggerCalls' = Bump(triggerCalls, pair)
           /\ \E out \in Outcomes :
                /\ Issue(Request("triggerFetch", r.caller, r.packageName,
                                 r.version, r.versionToFetch,
                                 IF out = "ok" THEN NextJob ELSE NoJob,
                                 r.cb, TriggerResult(out)),
                         Without(r), out)
                /\ IF out = "ok"
                   THEN /\ jobStatus' = [jobStatus EXCEPT ![NextJob] = "pending"]
                        /\ jobPair' = [jobPair EXCEPT ![NextJob] = pair]
                   ELSE UNCHANGED <<jobStatus, jobPair>>
    /\ UNCHANGED <<hookVars, sectionVars, jobError, stored, completeCalls,
                   errorCalls, lastErrorArg, lastCallback, errorShown,
                   propChanges>>
    /\ UNCHANGED <<pagesVars, treeVars>>

\* triggerFetch returned the job id: setJobId, so the polling effect starts
\* the poller and the fetch effect re-runs (and returns at its guard)
FetchTriggerOk(r) ==
    /\ IsFetch(r, "triggerFetch") /\ r.result = "ok"
    /\ jobId' = SetState(jobId, r.jobId)
    /\ \E out \in Outcomes :
         Commit(jobId # r.jobId, r.jobId, packageName, version,
                onCompleteRef, status, isPolling, error, loading, sectionError,
                Without(r), out)
    /\ UNCHANGED <<onCompleteRef, onErrorRef, packageName, version, tree,
                   lifecycle, renderCount, serverVars, triggerCalls,
                   completeCalls, errorCalls, lastErrorArg, lastCallback,
                   errorShown, propChanges>>
    /\ UNCHANGED <<pagesVars, treeVars>>

\* the message the outer catch shows for a failed await
FetchErrorMessage(r) ==
    IF r.kind = "fetchLatest" /\ r.result = "notok" THEN NpmNotOkMessage
    ELSE IF r.kind = "fetchLatest" /\ r.result = "empty" THEN NoVersionMessage
    ELSE r.error

\* the outer catch: setError and setLoading(false)
FetchFailed(r) ==
    /\ r \in BagToSet(requests) /\ r.caller = "fetchDependencies"
    /\ \/ r.kind = "fetchLatest" /\ r.result # "ok"
       \/ r.kind = "depsGet" /\ r.result # "ok" /\ ~IsNotFound(r)
       \/ r.kind = "triggerFetch" /\ r.result = "reject"
    /\ sectionError' = SetState(sectionError, FetchErrorMessage(r))
    /\ loading' = SetState(loading, FALSE)
    /\ requests' = Without(r)
    /\ UNCHANGED <<hookVars, packageName, version, tree, jobId, lifecycle,
                   renderCount, serverVars, issued, faults, historyVars>>
    /\ UNCHANGED <<pagesVars, treeVars>>

\* ---- onComplete after its awaits (DependencyTreeSection.tsx 48-65) ----
IsOnComplete(r, kind) ==
    r \in BagToSet(requests) /\ r.caller = "onComplete" /\ r.kind = kind

OnCompleteLookupOk(r) ==
    /\ IsOnComplete(r, "fetchLatest") /\ r.result = "ok"
    /\ \E out \in Outcomes :
         Issue(Request("depsGet", r.caller, r.packageName, r.version,
                       LatestVersion(r.packageName), NoJob, r.cb,
                       GetResult(<<r.packageName, LatestVersion(r.packageName)>>, out)),
               Without(r), out)
    /\ UNCHANGED <<hookVars, sectionVars, serverVars, triggerCalls,
                   completeCalls, errorCalls, lastErrorArg, lastCallback,
                   errorShown, propChanges>>
    /\ UNCHANGED <<pagesVars, treeVars>>

\* the re-fetch returned or threw, or no version was found: setTree on
\* success, then the finally block: setJobId(null), setLoading(false)
OnCompleteSettled(r) ==
    /\ r \in BagToSet(requests) /\ r.caller = "onComplete"
    /\ \/ r.kind = "depsGet"
       \/ r.kind = "fetchLatest" /\ r.result # "ok"
    /\ tree' = IF r.kind = "depsGet" /\ r.result = "ok"
               THEN SetState(tree, <<r.packageName, r.versionToFetch>>)
               ELSE tree
    /\ jobId' = SetState(jobId, NoJob)
    /\ \E out \in Outcomes :
         Commit(jobId # NoJob, NoJob, packageName, version,
                onCompleteRef, status, isPolling, error, FALSE, sectionError,
                Without(r), out)
    /\ UNCHANGED <<onCompleteRef, onErrorRef, packageName, version, lifecycle,
                   renderCount, serverVars, triggerCalls, completeCalls,
                   errorCalls, lastErrorArg, lastCallback, errorShown,
                   propChanges>>
    /\ UNCHANGED <<pagesVars, treeVars>>

\* ---- the job server ----
JobRun(j) ==
    /\ jobStatus[j] = "pending"
    /\ jobStatus' = [jobStatus EXCEPT ![j] = "running"]
    /\ UNCHANGED <<hookVars, sectionVars, jobError, jobPair, stored, netVars,
                   historyVars>>
    /\ UNCHANGED <<pagesVars, treeVars>>

\* the crawl finished and stored the tree of its pair
JobComplete(j) ==
    /\ jobStatus[j] = "running"
    /\ jobStatus' = [jobStatus EXCEPT ![j] = "completed"]
    /\ stored' = stored \cup {jobPair[j]}
    /\ UNCHANGED <<hookVars, sectionVars, jobError, jobPair, netVars,
                   historyVars>>
    /\ UNCHANGED <<pagesVars, treeVars>>

JobFail(j, e) ==
    /\ jobStatus[j] = "running"
    /\ jobStatus' = [jobStatus EXCEPT ![j] = "failed"]
    /\ jobError' = [jobError EXCEPT ![j] = e]
    /\ UNCHANGED <<hookVars, sectionVars, jobPair, stored, netVars,
                   historyVars>>
    /\ UNCHANGED <<pagesVars, treeVars>>

Next ==
    \/ Mount
    \/ Unmount
    \/ Rerender
    \/ \E p \in PropsSet : PropsChange(p)
    \/ \E t \in timers : TimerTick(t)
    \/ \E r \in BagToSet(requests) : PollProgress(r)
    \/ \E r \in BagToSet(requests) : PollCompleted(r)
    \/ \E r \in BagToSet(requests) : PollFailed(r)
    \/ \E r \in BagToSet(requests) : PollRejected(r)
    \/ \E r \in BagToSet(requests) : FetchLookupOk(r)
    \/ \E r \in BagToSet(requests) : FetchGetOk(r)
    \/ \E r \in BagToSet(requests) : FetchGetNotFound(r)
    \/ \E r \in BagToSet(requests) : FetchTriggerOk(r)
    \/ \E r \in BagToSet(requests) : FetchFailed(r)
    \/ \E r \in BagToSet(requests) : OnCompleteLookupOk(r)
    \/ \E r \in BagToSet(requests) : OnCompleteSettled(r)
    \/ \E j \in JobIds : JobRun(j)
    \/ \E j \in JobIds : JobComplete(j)
    \/ \E j \in JobIds, e \in ServerErrors : JobFail(j, e)

Spec == Init /\ [][Next]_vars

TypeOK ==
    /\ isPolling \in BOOLEAN /\ loading \in BOOLEAN
    /\ jobId \in JobIds \cup {NoJob}
    /\ BagCardinality(requests) <= MaxReqs

\* =========================================================================
\* The list pages: PackageList and AlertsDashboard (hooks/useJobPolling.ts
\* 117-786), the caches App provides, and the list and mutation APIs.
\* =========================================================================

\* ----------------------------------------------------------- the list APIs
RECURSIVE SortedSeq(_)
SortedSeq(S) ==
    IF S = {} THEN <<>>
    ELSE LET m == CHOOSE x \in S : \A y \in S : x <= y
         IN <<m>> \o SortedSeq(S \ {m})

Min(a, b) == IF a < b THEN a ELSE b
Max(a, b) == IF a > b THEN a ELSE b

\* one page of a result
Slice(seq, skip, limit) == SubSeq(seq, skip + 1, Min(skip + limit, Len(seq)))

\* packagesApi.list({skip, limit, search}) on the packages the server holds
ListPackages(skip, limit, s) ==
    LET held == (1..(BasePackages + created)) \ deleted
        all == SortedSeq({n \in held : s = "" \/ n \in SearchHits})
    IN [packages |-> Slice(all, skip, limit), total |-> Len(all)]

Alert(a) == [id |-> a, severity |-> Severity[a], status |-> alertStatus[a]]

\* alertsApi.list({skip, limit, status})
ListAlerts(skip, limit, st) ==
    LET all == SelectSeq([a \in AlertIds |-> Alert(a)],
                         LAMBDA x : st = "all" \/ x.status = st)
    IN [alerts |-> Slice(all, skip, limit), total |-> Len(all)]

\* ------------------------------------------------------------- the caches
\* cache.getCache(key): the stored value, if there is one
HasEntry(c, ns, key) == key \in DOMAIN c[ns]
GetCache(c, ns, key) == c[ns][key]

\* cache.setCache(key, value)
SetCache(c, ns, key, value) == [c EXCEPT ![ns] = (key :> value) @@ @]

\* cache.invalidateAll()
InvalidateAll(c, ns) == [c EXCEPT ![ns] = <<>>]

\* getCacheKey({skip, limit, search}): one key per combination of parameters
GetCacheKey(skip, limit, s) ==
    [skip |-> skip, limit |-> limit,
     search |-> IF s = "" THEN "undefined" ELSE s]

\* getAlertsCacheKey({skip, limit, status, sortOption})
GetAlertsCacheKey(skip, limit, st, so) ==
    [skip |-> skip, limit |-> limit,
     status |-> IF st = "all" THEN "undefined" ELSE st, sortOption |-> so]

\* ---------------------------------------------------- client-side sorting
Reverse(seq) == [i \in 1..Len(seq) |-> seq[Len(seq) + 1 - i]]

\* Array.prototype.sort((a, b) => b.severity - a.severity): stable
RECURSIVE SortBySeverity(_)
SortBySeverity(seq) ==
    IF seq = <<>> THEN <<>>
    ELSE LET head == SortBySeverity(SubSeq(seq, 1, Len(seq) - 1))
             x == seq[Len(seq)]
             k == Cardinality({i \in 1..Len(head) :
                                  head[i].severity >= x.severity})
         IN SubSeq(head, 1, k) \o <<x>> \o SubSeq(head, k + 1, Len(head))

\* sortedAlerts: the copy of the array, ordered by the sort option
SortedAlerts(arr, so) ==
    IF so = "oldest" THEN Reverse(arr)
    ELSE IF so = "severity" THEN SortBySeverity(arr)
    ELSE arr

SourceArrayAfterSortInPlace(arr, so) ==
    IF so = "oldest" THEN Reverse(arr)
    ELSE IF so = "severity" THEN SortBySeverity(arr)
    ELSE arr
\* the array that was copied ([...x.alerts]) after the copy has been sorted
SourceArrayAfterSort(arr, so) == arr

\* ------------------------------------------------------ the pages' requests
\* closure: what the handler's render had captured
Closure(page, s, sf, so) ==
    [page |-> page, search |-> s, statusFilter |-> sf, sortOption |-> so]

PageRequest(kind, origin, inst, cl, key, arg, out, response) ==
    [kind |-> kind, origin |-> origin, inst |-> inst, closure |-> cl,
     key |-> key, arg |-> arg, out |-> out, response |-> response]

CanIssue(out) ==
    /\ out \in {"ok", "reject"}
    /\ pageIssued < MaxPageReqs
    /\ out = "reject" => pageFaults < MaxPageFaults

\* the request is sent
Send(req, reqs) ==
    /\ CanIssue(req.out)
    /\ pageReqs' = reqs (+) SetToBag({req})
    /\ pageIssued' = pageIssued + 1
    /\ pageFaults' = pageFaults + (IF req.out = "reject" THEN 1 ELSE 0)

\* nothing is sent
NoSend(reqs) ==
    /\ pageReqs' = reqs
    /\ UNCHANGED <<pageIssued, pageFaults>>

Live(page, inst) == route = page /\ instance = inst

\* ------------------------------------------------------------ PackageList
CacheHitNever(c, ns, key) == FALSE
\* if (cachedData)
CacheHit(c, ns, key) == HasEntry(c, ns, key)

Fetched(ns, key, hit, live) ==
    [ns |-> ns, key |-> key, hit |-> hit, live |-> live,
     run |-> 1 - lastFetch.run]

\* fetchPackages of the render that captured cl, up to its await: on a
\* cache hit the state is set from the cache, otherwise the list is requested
FetchPackages(live, inst, cl, pk, tot, ld, er, c, reqs, out) ==
    LET skip == (cl.page - 1) * ITEMS_PER_PAGE
        key == GetCacheKey(skip, ITEMS_PER_PAGE, cl.search)
        hit == CacheHit(c, UsePackagesCache, key)
    IN /\ lastFetch' = Fetched(UsePackagesCache, key, hit, live)
       /\ IF hit
          THEN /\ packages' = IF live THEN GetCache(c, UsePackagesCache, key).packages
                              ELSE pk
               /\ total' = IF live THEN GetCache(c, UsePackagesCache, key).total
                           ELSE tot
               /\ listLoading' = ld /\ listError' = er
               /\ NoSend(reqs)
               /\ UNCHANGED listCalls
          ELSE /\ packages' = pk /\ total' = tot
               /\ listLoading' = (live \/ ld)
               /\ listError' = IF live THEN NoError ELSE er
               /\ Send(PageRequest("packagesList", "packages", inst, cl, key,
                                   0, out,
                                   ListPackages(skip, ITEMS_PER_PAGE, cl.search)),
                       reqs)
               /\ listCalls' = Bump(listCalls, UsePackagesCache)

\* the closure of the current render of PackageList
ListClosure == Closure(currentPage, debouncedSearch, "all", "newest")

PackageListUnmounted ==
    /\ packages' = <<>> /\ total' = 0 /\ currentPage' = 1
    /\ search' = "" /\ debouncedSearch' = ""
    /\ listLoading' = FALSE /\ listError' = NoError
    /\ packageToDelete' = NoPackage /\ debouncePending' = FALSE

\* ------------------------------------------------------- AlertsDashboard
\* fetchAlerts of the render that captured cl, up to its await
FetchAlerts(live, inst, cl, al, tot, ld, er, c, reqs, out) ==
    LET st == cl.statusFilter
        key == GetAlertsCacheKey(0, ITEMS_PER_PAGE, st, cl.sortOption)
        hit == CacheHit(c, UseAlertsCache, key)
    IN /\ lastFetch' = Fetched(UseAlertsCache, key, hit, live)
       /\ IF hit
          THEN LET cachedData == GetCache(c, UseAlertsCache, key)
               IN /\ alerts' = IF live
                               THEN SortedAlerts(cachedData.alerts, cl.sortOption)
                               ELSE al
                  /\ alertsTotal' = IF live THEN cachedData.total ELSE tot
                  /\ cache' = SetCache(c, UseAlertsCache, key,
                                 [cachedData EXCEPT !.alerts =
                                     SourceArrayAfterSort(@, cl.sortOption)])
                  /\ alertsLoading' = ld /\ alertsError' = er
                  /\ NoSend(reqs)
                  /\ UNCHANGED listCalls
          ELSE /\ alerts' = al /\ alertsTotal' = tot
               /\ cache' = c
               /\ alertsLoading' = (live \/ ld)
               /\ alertsError' = IF live THEN NoError ELSE er
               /\ Send(PageRequest("alertsList", "alerts", inst, cl, key, 0, out,
                                   ListAlerts(0, ITEMS_PER_PAGE, st)),
                       reqs)
               /\ listCalls' = Bump(listCalls, UseAlertsCache)

\* the closure of the current render of AlertsDashboard
AlertsClosure == Closure(1, "", statusFilter, sortOption)

AlertsUnmounted ==
    /\ alerts' = <<>> /\ alertsTotal' = 0
    /\ statusFilter' = "all" /\ sortOption' = "newest"
    /\ alertsLoading' = FALSE /\ alertsError' = NoError

\* ---------------------------------------------------------------- routing
\* The router mounts another page: the page left is unmounted (its debounce
\* timer is cleared, its state is gone), the page entered runs its effects.
Navigate(to) ==
    /\ to \in Routes /\ to # route
    /\ instance < MaxNavigations
    /\ route' = to /\ instance' = instance + 1
    /\ \E out \in {"ok", "reject"} :
         CASE to = "packages" ->
                /\ AlertsUnmounted
                /\ currentPage' = 1 /\ search' = "" /\ debouncedSearch' = ""
                /\ packageToDelete' = NoPackage /\ debouncePending' = TRUE
                /\ FetchPackages(TRUE, instance + 1, Closure(1, "", "all", "newest"),
                                 <<>>, 0, FALSE, NoError, cache, pageReqs, out)
                /\ UNCHANGED cache
           [] to = "alerts" ->
                /\ PackageListUnmounted
                /\ statusFilter' = "all" /\ sortOption' = "newest"
                /\ FetchAlerts(TRUE, instance + 1, Closure(1, "", "all", "newest"),
                               <<>>, 0, FALSE, NoError, cache, pageReqs, out)
           [] to = "detail" ->
                /\ PackageListUnmounted /\ AlertsUnmounted
                /\ NoSend(pageReqs)
                /\ UNCHANGED <<cache, listCalls, lastFetch>>
    /\ optimisticPackages' = <<>>
    /\ UNCHANGED <<listServerVars, addTimeouts, mutations, pollIntervals,
                   removeTimeouts>>
    /\ UNCHANGED totalBefore
    /\ UNCHANGED <<jobVars, treeVars>>

\* ------------------------------------------------ PackageList's handlers
OnPackages == route = "packages"

IsPageReq(r, kind, out) ==
    r \in BagToSet(pageReqs) /\ r.kind = kind /\ r.out = out

Answer(r) == pageReqs (-) SetToBag({r})

TotalPages(tot) == (tot + ITEMS_PER_PAGE - 1) \div ITEMS_PER_PAGE

ElementsOf(seq) == {seq[i] : i \in 1..Len(seq)}

\* handlePageChange, from the Previous / Next buttons of Pagination
HandlePageChange(page) ==
    /\ OnPackages /\ ~listLoading /\ Len(packages) > 0
    /\ TotalPages(total) > 1
    /\ \/ page = currentPage - 1 /\ currentPage # 1
       \/ page = currentPage + 1 /\ currentPage # TotalPages(total)
    /\ currentPage' = page
    /\ \E out \in {"ok", "reject"} :
         FetchPackages(TRUE, instance, Closure(page, debouncedSearch, "all", "newest"),
                       packages, total, listLoading, listError, cache,
                       pageReqs, out)
    /\ UNCHANGED <<appVars, listServerVars, search, debouncedSearch,
                   packageToDelete, addTimeouts, debouncePending, alertsVars,
                   mutations>>
    /\ UNCHANGED totalBefore
    /\ UNCHANGED <<jobVars, treeVars, optimisticVars>>

\* onSearchChange: the debounce effect replaces its timer
TypeSearch(s) ==
    /\ OnPackages
    /\ s \in SearchTerms /\ s # search
    /\ search' = s /\ debouncePending' = TRUE
    /\ UNCHANGED <<appVars, listServerVars, packages, total, currentPage,
                   debouncedSearch, listLoading, listError, packageToDelete,
                   addTimeouts, alertsVars, pageNetVars, pageHistoryVars>>
    /\ UNCHANGED <<jobVars, treeVars, optimisticVars>>

\* the debounce timer fires: the fetch effect runs if the page or the
\* debounced search changed
DebounceFires ==
    /\ OnPackages /\ debouncePending
    /\ debouncePending' = FALSE
    /\ debouncedSearch' = search /\ currentPage' = 1
    /\ IF <<1, search>> # <<currentPage, debouncedSearch>>
       THEN \E out \in {"ok", "reject"} :
              FetchPackages(TRUE, instance, Closure(1, search, "all", "newest"),
                            packages, total, listLoading, listError, cache,
                            pageReqs, out)
       ELSE UNCHANGED <<packages, total, listLoading, listError, pageNetVars,
                        listCalls, lastFetch>>
    /\ UNCHANGED <<appVars, listServerVars, search, packageToDelete,
                   addTimeouts, alertsVars, mutations>>
    /\ UNCHANGED totalBefore
    /\ UNCHANGED <<jobVars, treeVars, optimisticVars>>

\* fetchPackages after its await: the response is shown and cached
PackagesListOk(r) ==
    /\ IsPageReq(r, "packagesList", "ok")
    /\ cache' = SetCache(cache, UsePackagesCache, r.key, r.response)
    /\ IF Live("packages", r.inst)
       THEN /\ packages' = r.response.packages
            /\ total' = r.response.total
            /\ listLoading' = FALSE
       ELSE UNCHANGED <<packages, total, listLoading>>
    /\ pageReqs' = Answer(r)
    /\ UNCHANGED <<route, instance, listServerVars, currentPage, search,
                   debouncedSearch, listError, packageToDelete, addTimeouts,
                   debouncePending, alertsVars, pageIssued, pageFaults,
                   pageHistoryVars>>
    /\ UNCHANGED <<jobVars, treeVars, optimisticVars>>

\* fetchPackages after its await: the request failed
PackagesListFailed(r) ==
    /\ IsPageReq(r, "packagesList", "reject")
    /\ IF Live("packages", r.inst)
       THEN listError' = TransportMessage /\ listLoading' = FALSE
       ELSE UNCHANGED <<listError, listLoading>>
    /\ pageReqs' = Answer(r)
    /\ UNCHANGED <<appVars, listServerVars, packages, total, currentPage,
                   search, debouncedSearch, packageToDelete, addTimeouts,
                   debouncePending, alertsVars, pageIssued, pageFaults,
                   pageHistoryVars>>
    /\ UNCHANGED <<jobVars, treeVars, optimisticVars>>

\* the packages whose delete button the user presses
DeleteCandidates == {1, BasePackages + 1}

\* handlePackageDelete: the confirmation dialog opens for pkg
HandlePackageDelete(pkg) ==
    /\ OnPackages /\ ~listLoading
    /\ pkg \in ElementsOf(packages) \cap DeleteCandidates
    /\ packageToDelete = NoPackage
    /\ packageToDelete' = pkg
    /\ UNCHANGED <<appVars, listServerVars, packages, total, currentPage,
                   search, debouncedSearch, listLoading, listError,
                   addTimeouts, debouncePending, alertsVars, pageNetVars,
                   pageHistoryVars>>
    /\ UNCHANGED <<jobVars, treeVars, optimisticVars>>

\* confirmDelete up to its await: the package is removed from the list and
\* packagesApi.delete is sent
ConfirmDelete ==
    /\ OnPackages /\ packageToDelete # NoPackage
    /\ mutations < MaxMutations
    /\ packages' = SelectSeq(packages, LAMBDA n : n # packageToDelete)
    /\ total' = Max(0, total - 1)
    /\ packageToDelete' = NoPackage
    /\ \E out \in {"ok", "reject"} :
         /\ Send(PageRequest("delete", "packages", instance, ListClosure, <<>>,
                             packageToDelete, out, <<>>), pageReqs)
         /\ deleted' = IF out = "ok" THEN deleted \cup {packageToDelete}
                       ELSE deleted
    /\ mutations' = mutations + 1 /\ totalBefore' = total
    /\ UNCHANGED <<appVars, created, alertStatus, currentPage, search,
                   debouncedSearch, listLoading, listError, addTimeouts,
                   debouncePending, alertsVars, listCalls, lastFetch>>
    /\ UNCHANGED <<jobVars, treeVars, optimisticVars>>

\* confirmDelete after its await, the delete succeeded
DeleteOk(r) ==
    /\ IsPageReq(r, "delete", "ok")
    /\ cache' = InvalidateAll(cache, UsePackagesCache)
    /\ pageReqs' = Answer(r)
    /\ UNCHANGED <<route, instance, listServerVars, packageListVars,
                   alertsVars, pageIssued, pageFaults, pageHistoryVars>>
    /\ UNCHANGED <<jobVars, treeVars, optimisticVars>>

\* confirmDelete after its await, the delete failed: the error is set, the
\* package is put back and fetchPackages runs
DeleteFailed(r) ==
    /\ IsPageReq(r, "delete", "reject")
    /\ LET live == Live("packages", r.inst)
           restored == IF r.arg \in ElementsOf(packages) THEN packages
                       ELSE SortedSeq(ElementsOf(packages) \cup {r.arg})
       IN \E out \in {"ok", "reject"} :
            FetchPackages(live, r.inst, r.closure,
                          IF live THEN restored ELSE packages,
                          IF live THEN total + 1 ELSE total,
                          listLoading,
                          IF live THEN TransportMessage ELSE listError,
                          cache, Answer(r), out)
    /\ UNCHANGED <<appVars, listServerVars, currentPage, search,
                   debouncedSearch, packageToDelete, addTimeouts,
                   debouncePending, alertsVars, mutations>>
    /\ UNCHANGED totalBefore
    /\ UNCHANGED <<jobVars, treeVars, optimisticVars>>

\* the names typed into the add-package modal
AddNames == {"express"}

\* handleOptimisticAdd's optimisticPkg; id tells the add it belongs to
OptimisticPkg(name, id) ==
    [name |-> name, id |-> id, error |-> FALSE, loadedData |-> FALSE]

\* prev.map(p => p.name === packageName ? {...p, [field]: TRUE} : p)
MarkByName(prev, name, field) ==
    [i \in 1..Len(prev) |->
        IF prev[i].name = name THEN [prev[i] EXCEPT ![field] = TRUE]
        ELSE prev[i]]

\* prev.filter((p) => p.name !== packageName)
RemoveByName(prev, name) == SelectSeq(prev, LAMBDA p : p.name # name)

\* clearInterval(pollInterval) of the add with this id
ClearInterval(id) == {i \in pollIntervals : i.id # id}

\* AddPackageModal.handleSubmit, from the Layout of the mounted page:
\* packagesApi.create is sent; PackageList also gets onOptimisticAdd, which
\* prepends the optimistic entry and starts its 1 s polling interval
CreateSubmit(name) ==
    /\ route \in Routes
    /\ mutations < MaxMutations
    /\ \E out \in {"ok", "reject"} :
         /\ Send(PageRequest("create", route, instance, ListClosure, <<>>,
                             [name |-> name, id |-> mutations + 1], out, <<>>),
                 pageReqs)
         /\ created' = IF out = "ok" THEN created + 1 ELSE created
    /\ mutations' = mutations + 1
    /\ IF route = "packages"
       THEN /\ optimisticPackages' =
                 <<OptimisticPkg(name, mutations + 1)>> \o optimisticPackages
            /\ pollIntervals' = pollIntervals \cup
                 {[name |-> name, id |-> mutations + 1, inst |-> instance]}
       ELSE UNCHANGED <<optimisticPackages, pollIntervals>>
    /\ UNCHANGED <<appVars, deleted, alertStatus, packageListVars, alertsVars,
                   listCalls, lastFetch, removeTimeouts>>
    /\ UNCHANGED totalBefore
    /\ UNCHANGED <<jobVars, treeVars>>

\* createPromise after its await: onSuccess (handlePackageAdded, when the
\* page passed onPackageAdded), then navigate to the package's page; after
\* it handleOptimisticAdd sets its 500 ms timeout
CreateOk(r) ==
    /\ IsPageReq(r, "create", "ok")
    /\ route' = "detail" /\ UNCHANGED instance
    /\ currentPage' = 1 /\ search' = "" /\ debouncedSearch' = ""
    /\ packageToDelete' = NoPackage /\ debouncePending' = FALSE
    /\ AlertsUnmounted
    /\ IF r.origin = "packages"
       THEN /\ cache' = InvalidateAll(cache, UsePackagesCache)
            /\ \E out \in {"ok", "reject"} :
                 FetchPackages(FALSE, r.inst, r.closure, <<>>, 0, FALSE, NoError,
                               InvalidateAll(cache, UsePackagesCache),
                               Answer(r), out)
            /\ addTimeouts' = addTimeouts \cup
                                 {[inst |-> r.inst, closure |-> r.closure,
                                   name |-> r.arg.name, id |-> r.arg.id]}
       ELSE /\ packages' = <<>> /\ total' = 0
            /\ listLoading' = FALSE /\ listError' = NoError
            /\ NoSend(Answer(r))
            /\ UNCHANGED <<cache, addTimeouts, listCalls, lastFetch>>
    /\ optimisticPackages' = <<>>
    /\ UNCHANGED <<listServerVars, mutations, pollIntervals, removeTimeouts>>
    /\ UNCHANGED totalBefore
    /\ UNCHANGED <<jobVars, treeVars>>

\* createPromise rejected: nothing is invalidated or fetched; the catch of
\* handleOptimisticAdd clears the interval, marks the entries of that name
\* with the error and sets the 5 s removal timeout
CreateFailed(r) ==
    /\ IsPageReq(r, "create", "reject")
    /\ pageReqs' = Answer(r)
    /\ IF r.origin = "packages"
       THEN /\ pollIntervals' = ClearInterval(r.arg.id)
            /\ optimisticPackages' =
                 IF Live("packages", r.inst)
                 THEN MarkByName(optimisticPackages, r.arg.name, "error")
                 ELSE optimisticPackages
            /\ removeTimeouts' = removeTimeouts \cup
                 {[name |-> r.arg.name, id |-> r.arg.id, inst |-> r.inst]}
       ELSE UNCHANGED optimisticVars
    /\ UNCHANGED <<appVars, listServerVars, packageListVars, alertsVars,
                   pageIssued, pageFaults, pageHistoryVars>>
    /\ UNCHANGED <<jobVars, treeVars>>

\* the 5 s timeout of handleOptimisticAdd's catch: the entries of that name
\* are filtered out
RemoveTimeoutFires(t) ==
    /\ t \in removeTimeouts
    /\ removeTimeouts' = removeTimeouts \ {t}
    /\ optimisticPackages' =
         IF Live("packages", t.inst)
         THEN RemoveByName(optimisticPackages, t.name)
         ELSE optimisticPackages
    /\ UNCHANGED <<appVars, listServerVars, packageListVars, alertsVars,
                   pageNetVars, pageHistoryVars, pollIntervals>>
    /\ UNCHANGED <<jobVars, treeVars>>

\* one tick of the 1 s interval: packagesApi.get(packageName) and, when it
\* answers, loadedData on the entries of that name; a failure is ignored
OptimisticPollTick(i) ==
    /\ i \in pollIntervals
    /\ \E out \in {"ok", "reject"} :
         optimisticPackages' =
            IF out = "ok" /\ Live("packages", i.inst)
            THEN MarkByName(optimisticPackages, i.name, "loadedData")
            ELSE optimisticPackages
    /\ UNCHANGED <<appVars, listServerVars, packageListVars, alertsVars,
                   pageNetVars, pageHistoryVars, pollIntervals, removeTimeouts>>
    /\ UNCHANGED <<jobVars, treeVars>>

\* the 500 ms timeout of handleOptimisticAdd: the entries of that name are
\* filtered out, handlePackageAdded of the render that started the add
\* runs, the interval is cleared
AddTimeoutFires(t) ==
    /\ t \in addTimeouts
    /\ addTimeouts' = addTimeouts \ {t}
    /\ optimisticPackages' =
         IF Live("packages", t.inst)
         THEN RemoveByName(optimisticPackages, t.name)
         ELSE optimisticPackages
    /\ pollIntervals' = ClearInterval(t.id)
    /\ UNCHANGED removeTimeouts
    /\ cache' = InvalidateAll(cache, UsePackagesCache)
    /\ \E out \in {"ok", "reject"} :
         FetchPackages(Live("packages", t.inst), t.inst, t.closure, packages,
                       total, listLoading, listError,
                       InvalidateAll(cache, UsePackagesCache), pageReqs, out)
    /\ UNCHANGED <<route, instance, listServerVars, currentPage, search,
                   debouncedSearch, packageToDelete, debouncePending,
                   alertsVars, mutations>>
    /\ UNCHANGED totalBefore
    /\ UNCHANGED <<jobVars, treeVars>>

\* -------------------------------------------- AlertsDashboard's handlers
OnAlerts == route = "alerts"

\* a status filter is chosen in the dropdown: the fetch effect runs
ChangeStatusFilter(f) ==
    /\ OnAlerts
    /\ f \in StatusFilters /\ f # statusFilter
    /\ statusFilter' = f /\ UNCHANGED sortOption
    /\ \E out \in {"ok", "reject"} :
         FetchAlerts(TRUE, instance, Closure(1, "", f, sortOption), alerts,
                     alertsTotal, alertsLoading, alertsError, cache, pageReqs,
                     out)
    /\ UNCHANGED <<route, instance, listServerVars, packageListVars, mutations>>
    /\ UNCHANGED totalBefore
    /\ UNCHANGED <<jobVars, treeVars, optimisticVars>>

\* a sort option is chosen in the dropdown: the fetch effect runs
ChangeSort(o) ==
    /\ OnAlerts
    /\ o \in SortOptions /\ o # sortOption
    /\ sortOption' = o /\ UNCHANGED statusFilter
    /\ \E out \in {"ok", "reject"} :
         FetchAlerts(TRUE, instance, Closure(1, "", statusFilter, o), alerts,
                     alertsTotal, alertsLoading, alertsError, cache, pageReqs,
                     out)
    /\ UNCHANGED <<route, instance, listServerVars, packageListVars, mutations>>
    /\ UNCHANGED totalBefore
    /\ UNCHANGED <<jobVars, treeVars, optimisticVars>>

\* fetchAlerts after its await: the response is cached, a sorted copy shown
AlertsListOk(r) ==
    /\ IsPageReq(r, "alertsList", "ok")
    /\ cache' = SetCache(cache, UseAlertsCache, r.key,
                    [r.response EXCEPT !.alerts =
                        SourceArrayAfterSort(@, r.closure.sortOption)])
    /\ IF Live("alerts", r.inst)
       THEN /\ alerts' = SortedAlerts(r.response.alerts, r.closure.sortOption)
            /\ alertsTotal' = r.response.total
            /\ alertsLoading' = FALSE
       ELSE UNCHANGED <<alerts, alertsTotal, alertsLoading>>
    /\ pageReqs' = Answer(r)
    /\ UNCHANGED <<route, instance, listServerVars, packageListVars,
                   statusFilter, sortOption, alertsError, pageIssued,
                   pageFaults, pageHistoryVars>>
    /\ UNCHANGED <<jobVars, treeVars, optimisticVars>>

\* fetchAlerts after its await: the request failed
AlertsListFailed(r) ==
    /\ IsPageReq(r, "alertsList", "reject")
    /\ IF Live("alerts", r.inst)
       THEN alertsError' = TransportMessage /\ alertsLoading' = FALSE
       ELSE UNCHANGED <<alertsError, alertsLoading>>
    /\ pageReqs' = Answer(r)
    /\ UNCHANGED <<appVars, listServerVars, packageListVars, alerts,
                   alertsTotal, statusFilter, sortOption, pageIssued,
                   pageFaults, pageHistoryVars>>
    /\ UNCHANGED <<jobVars, treeVars, optimisticVars>>

\* handleStatusChange up to its first await: the alert shows the new status
\* and alertsApi.updateStatus is sent
HandleStatusChange(a, st) ==
    /\ OnAlerts /\ ~alertsLoading
    /\ mutations < MaxMutations
    /\ st \in AlertStatuses
    /\ \E i \in 1..Len(alerts) : alerts[i].id = a /\ alerts[i].status # st
    /\ alerts' = [i \in 1..Len(alerts) |->
                     IF alerts[i].id = a THEN [alerts[i] EXCEPT !.status = st]
                     ELSE alerts[i]]
    /\ \E out \in {"ok", "reject"} :
         /\ Send(PageRequest("updateStatus", "alerts", instance, AlertsClosure,
                             <<>>, a, out, <<>>), pageReqs)
         /\ alertStatus' = IF out = "ok" THEN [alertStatus EXCEPT ![a] = st]
                           ELSE alertStatus
    /\ mutations' = mutations + 1
    /\ UNCHANGED <<appVars, created, deleted, packageListVars, alertsTotal,
                   statusFilter, sortOption, alertsLoading, alertsError,
                   listCalls, lastFetch>>
    /\ UNCHANGED totalBefore
    /\ UNCHANGED <<jobVars, treeVars, optimisticVars>>

\* handleStatusChange after updateStatus succeeded: the alerts cache is
\* invalidated and alertsApi.getStats is sent
UpdateOk(r) ==
    /\ IsPageReq(r, "updateStatus", "ok")
    /\ cache' = InvalidateAll(cache, UseAlertsCache)
    /\ \E out \in {"ok", "reject"} :
         Send(PageRequest("getStats", "alerts", r.inst, r.closure, <<>>, r.arg,
                          out, <<>>), Answer(r))
    /\ UNCHANGED <<route, instance, listServerVars, packageListVars,
                   alertsVars, pageHistoryVars>>
    /\ UNCHANGED <<jobVars, treeVars, optimisticVars>>

RevertWithoutRefetch(r) ==
    /\ pageReqs' = Answer(r)
    /\ alertsError' = IF Live("alerts", r.inst) THEN TransportMessage
                      ELSE alertsError
    /\ UNCHANGED <<appVars, listServerVars, packageListVars, alerts,
                   alertsTotal, statusFilter, sortOption, alertsLoading,
                   pageIssued, pageFaults, pageHistoryVars>>
    /\ UNCHANGED <<jobVars, treeVars, optimisticVars>>

\* handleStatusChange's catch: the error is set, the alerts cache is
\* invalidated and fetchAlerts runs
Revert(r) ==
    /\ LET live == Live("alerts", r.inst)
       IN \E out \in {"ok", "reject"} :
            FetchAlerts(live, r.inst, r.closure, alerts, alertsTotal,
                        alertsLoading,
                        IF live THEN TransportMessage ELSE alertsError,
                        InvalidateAll(cache, UseAlertsCache), Answer(r), out)
    /\ UNCHANGED <<route, instance, listServerVars, packageListVars,
                   statusFilter, sortOption, mutations>>
    /\ UNCHANGED totalBefore
    /\ UNCHANGED <<jobVars, treeVars, optimisticVars>>

UpdateFailed(r) ==
    /\ IsPageReq(r, "updateStatus", "reject")
    /\ Revert(r)

\* handleStatusChange after getStats: the counts are shown
StatsOk(r) ==
    /\ IsPageReq(r, "getStats", "ok")
    /\ pageReqs' = Answer(r)
    /\ UNCHANGED <<appVars, listServerVars, packageListVars, alertsVars,
                   pageIssued, pageFaults, pageHistoryVars>>
    /\ UNCHANGED <<jobVars, treeVars, optimisticVars>>

StatsFailed(r) ==
    /\ IsPageReq(r, "getStats", "reject")
    /\ Revert(r)

\* the package page stores what it fetched in the package-detail cache
DetailCached ==
    /\ route = "detail"
    /\ ~HasEntry(cache, "detail", "pkg")
    /\ cache' = SetCache(cache, "detail", "pkg", [name |-> "pkg"])
    /\ UNCHANGED <<route, instance, listServerVars, packageListVars,
                   alertsVars, pageNetVars, pageHistoryVars>>
    /\ UNCHANGED <<jobVars, treeVars, optimisticVars>>

\* --------------------------------------------------- the pages' behaviours
PagesNext ==
    \/ \E to \in Routes : Navigate(to)
    \/ \E page \in 1..3 : HandlePageChange(page)
    \/ \E s \in SearchTerms : TypeSearch(s)
    \/ DebounceFires
    \/ \E r \in BagToSet(pageReqs) : PackagesListOk(r)
    \/ \E r \in BagToSet(pageReqs) : PackagesListFailed(r)
    \/ \E pkg \in DeleteCandidates : HandlePackageDelete(pkg)
    \/ ConfirmDelete
    \/ \E r \in BagToSet(pageReqs) : DeleteOk(r)
    \/ \E r \in BagToSet(pageReqs) : DeleteFailed(r)
    \/ \E name \in AddNames : CreateSubmit(name)
    \/ \E r \in BagToSet(pageReqs) : CreateOk(r)
    \/ \E r \in BagToSet(pageReqs) : CreateFailed(r)
    \/ \E t \in addTimeouts : AddTimeoutFires(t)
    \/ \E t \in removeTimeouts : RemoveTimeoutFires(t)
    \/ \E i \in pollIntervals : OptimisticPollTick(i)
    \/ \E f \in StatusFilters : ChangeStatusFilter(f)
    \/ \E o \in SortOptions : ChangeSort(o)
    \/ \E r \in BagToSet(pageReqs) : AlertsListOk(r)
    \/ \E r \in BagToSet(pageReqs) : AlertsListFailed(r)
    \/ \E a \in AlertIds, st \in AlertStatuses : HandleStatusChange(a, st)
    \/ \E r \in BagToSet(pageReqs) : UpdateOk(r)
    \/ \E r \in BagToSet(pageReqs) : UpdateFailed(r)
    \/ \E r \in BagToSet(pageReqs) : StatsOk(r)
    \/ \E r \in BagToSet(pageReqs) : StatsFailed(r)
    \/ DetailCached

\* no dependency section on the page: its state stays as constructed
SectionIdle ==
    SectionInit /\ packageName = "left-pad" /\ stored = {}

PagesInit == SectionIdle /\ PagesIdle /\ TreeIdle

PagesSpec == PagesInit /\ [][PagesNext]_vars

\* =========================================================================
\* The tree functions the section's useMemo calls (lib/dependencyUtils) and
\* the type filter (components/DependencyTreeSection.tsx 125-151).
\* =========================================================================
\* the depth at which the traversal stops descending
DepthCeiling == 3

\* the keys of node.children, in the order they are visited, and the type
\* each stands for
EdgeKeys == <<"dependencies", "devDependencies", "optionalDependencies",
              "peerDependencies">>
DependencyTypes == {"prod", "dev", "optional", "peer"}
TypeOfKey(k) ==
    CASE k = "dependencies" -> "prod"
      [] k = "devDependencies" -> "dev"
      [] k = "optionalDependencies" -> "optional"
      [] k = "peerDependencies" -> "peer"

\* A tree is given by its edges <<parent, key, child>>, in the order of the
\* entries of the children records; node 0 is the root.  bare holds the nodes
\* that have no children record at all, maintainers the nodes whose children
\* record carries a maintainers list (of one name).
Tree(edges) ==
    [loaded |-> TRUE, edges |-> edges, bare |-> {}, maintainers |-> {}]
\* the names of the packages of the input trees
NodeIds == 0..4

RootOnly == Tree(<<>>)
TwoDirect == Tree(<< <<0, "dependencies", 1>>, <<0, "devDependencies", 2>> >>)
DeepChain == Tree(<< <<0, "dependencies", 1>>, <<1, "dependencies", 2>>,
                     <<2, "dependencies", 3>>, <<3, "dependencies", 4>> >>)
Cyclic == Tree(<< <<0, "dependencies", 1>>, <<1, "dependencies", 2>>,
                  <<2, "peerDependencies", 1>> >>)
SharedChild == Tree(<< <<0, "dependencies", 1>>, <<0, "peerDependencies", 1>>,
                       <<0, "optionalDependencies", 2>>,
                       <<2, "devDependencies", 1>> >>)
\* malformed: the child has no children record
BareChild == [Tree(<< <<0, "dependencies", 1>> >>) EXCEPT !.bare = {1}]
\* node 1 has one child, one grandchild and a maintainers list
WithMaintainers ==
    [Tree(<< <<0, "dependencies", 1>>, <<1, "dependencies", 2>>,
             <<2, "devDependencies", 3>> >>) EXCEPT !.maintainers = {1}]
TreeInputs ==
    {RootOnly, TwoDirect, DeepChain, Cyclic, SharedChild, BareChild,
     WithMaintainers}

\* the entries of node.children[key], in order
ChildrenOf(T, node, key) ==
    SelectSeq(T.edges, LAMBDA e : e[1] = node /\ e[2] = key)

\* the entries of node.children over the four keys, in the order of the keys
RECURSIVE EdgesUnder(_, _, _)
EdgesUnder(T, node, k) ==
    IF k > Len(EdgeKeys) THEN <<>>
    ELSE ChildrenOf(T, node, EdgeKeys[k]) \o EdgesUnder(T, node, k + 1)

\* countNodeDeps reads node.children[depType]: a TypeError when the node has
\* no children record
CountNodeDepsRaises(T, node) == node \in T.bare

CountNodeDepsWithMaintainers(T, node) ==
    Len(SelectSeq(T.edges, LAMBDA e : e[1] = node))
    + (IF node \in T.maintainers THEN 1 ELSE 0)
\* countNodeDeps: the direct children of a node over the four keys
CountNodeDeps(T, node) ==
    Len(ChildrenOf(T, node, "dependencies"))
    + Len(ChildrenOf(T, node, "devDependencies"))
    + Len(ChildrenOf(T, node, "optionalDependencies"))
    + Len(ChildrenOf(T, node, "peerDependencies"))

\* the ProcessedDependency of an edge whose parent is at depth d
Processed(T, e, d) ==
    [name |-> e[3], type |-> TypeOfKey(e[2]), depth |-> d + 1,
     childCount |-> CountNodeDeps(T, e[3])]

DescendsAlways(d) == TRUE
\* whether the traversal descends into a node emitted at depth d
Descends(d) == d < DepthCeiling

\* ---- flattenByDepth: a traversal with a work stack of (node, depth) ----
WalkStart ==
    [pc |-> "walking", stack |-> << [node |-> 0, depth |-> 0] >>,
     emitted |-> <<>>, steps |-> 0]

\* the frames of the children to descend into
RECURSIVE Frames(_, _)
Frames(es, d) ==
    IF es = <<>> THEN <<>>
    ELSE (IF Descends(d + 1) THEN << [node |-> Head(es)[3], depth |-> d + 1] >>
          ELSE <<>>) \o Frames(Tail(es), d)

RECURSIVE EmittedOncePerChild(_, _, _)
EmittedOncePerChild(T, es, d) ==
    IF es = <<>> THEN <<>>
    ELSE LET rest == EmittedOncePerChild(T, Tail(es), d)
         IN IF \E i \in 1..Len(rest) : rest[i].name = Head(es)[3]
            THEN rest
            ELSE <<Processed(T, Head(es), d)>> \o rest
RECURSIVE Emitted(_, _, _)
Emitted(T, es, d) ==
    IF es = <<>> THEN <<>>
    ELSE <<Processed(T, Head(es), d)>> \o Emitted(T, Tail(es), d)

\* the mapping from depth to the entries emitted at that depth
GroupByDepth(emitted) ==
    [d \in {emitted[i].depth : i \in 1..Len(emitted)} |->
        SelectSeq(emitted, LAMBDA x : x.depth = d)]

\* ---- extractStats: one walk over the tree, level by level ----
RECURSIVE EdgesOfAll(_, _)
EdgesOfAll(T, nodes) ==
    IF nodes = <<>> THEN <<>>
    ELSE EdgesUnder(T, Head(nodes), 1) \o EdgesOfAll(T, Tail(nodes))

CountOf(es, ty) == Len(SelectSeq(es, LAMBDA e : TypeOfKey(e[2]) = ty))

RECURSIVE StatsBelow(_, _, _)
StatsBelow(T, nodes, d) ==
    LET es == EdgesOfAll(T, nodes)
        below == IF es # <<>> /\ Descends(d + 1)
                 THEN StatsBelow(T, [i \in 1..Len(es) |-> es[i][3]], d + 1)
                 ELSE [total |-> 0,
                       byType |-> [ty \in DependencyTypes |-> 0],
                       maxDepth |-> IF es = <<>> THEN d ELSE d + 1]
    IN [total |-> Len(es) + below.total,
        byType |-> [ty \in DependencyTypes |->
                       CountOf(es, ty) + below.byType[ty]],
        maxDepth |-> below.maxDepth]

ExtractStatsUniquePackages(T) ==
    LET st == StatsBelow(T, <<0>>, 0)
    IN [st EXCEPT !.total =
           Cardinality({T.edges[i][3] : i \in 1..Len(T.edges)})]
ExtractStats(T) == StatsBelow(T, <<0>>, 0)

\* ---- filterByType ----
Range(seq) == {seq[i] : i \in 1..Len(seq)}

FilterByType(grouped, types) ==
    LET kept(d) == SelectSeq(grouped[d], LAMBDA x : x.type \in Range(types))
    IN [d \in {dd \in DOMAIN grouped : kept(dd) # <<>>} |-> kept(d)]

\* ---- the section's useMemo over [tree, filterTypes] and its filter ----
MemoGroupsUnfiltered(grouped, types) == grouped
\* const filtered = filterByType(grouped, filterTypes)
MemoGroups(grouped, types) == FilterByType(grouped, types)

\* a tree arrives (setTree); the memo is recomputed from its first line
SetTree(T) ==
    /\ walk.pc \in {"idle", "done"}
    /\ T # treeInput
    /\ treeInput' = T
    /\ walk' = WalkStart
    /\ UNCHANGED <<filterTypes, memo>>
    /\ UNCHANGED <<jobVars, pagesVars>>

\* one turn of flattenByDepth: take a node, emit its children, keep those
\* to descend into
WalkStep ==
    /\ walk.pc = "walking"
    /\ walk.stack # <<>>
    /\ LET top == Head(walk.stack)
           es == EdgesUnder(treeInput, top.node, 1)
       IN IF \E i \in 1..Len(es) : CountNodeDepsRaises(treeInput, es[i][3])
          THEN walk' = [walk EXCEPT !.pc = "raised", !.steps = @ + 1]
          ELSE walk' = [walk EXCEPT
                           !.stack = Frames(es, top.depth) \o Tail(walk.stack),
                           !.emitted = @ \o Emitted(treeInput, es, top.depth),
                           !.steps = @ + 1]
    /\ UNCHANGED <<treeInput, filterTypes, memo>>
    /\ UNCHANGED <<jobVars, pagesVars>>

\* flattenByDepth has returned: filterByType, extractStats, and the result
MemoDone ==
    /\ walk.pc = "walking"
    /\ walk.stack = <<>>
    /\ memo' = [stats |-> ExtractStats(treeInput),
                groupedDeps |-> MemoGroups(GroupByDepth(walk.emitted),
                                           filterTypes)]
    /\ walk' = [walk EXCEPT !.pc = "done"]
    /\ UNCHANGED <<treeInput, filterTypes>>
    /\ UNCHANGED <<jobVars, pagesVars>>

\* the updater of toggleFilter
ToggleFilterUpdate(prev, type) ==
    IF type \in Range(prev) THEN SelectSeq(prev, LAMBDA t : t # type)
    ELSE Append(prev, type)

\* a filter button is clicked; with a tree the memo is recomputed
ToggleFilter(type) ==
    /\ walk.pc \in {"idle", "done"}
    /\ filterTypes' = ToggleFilterUpdate(filterTypes, type)
    /\ walk' = IF treeInput.loaded THEN WalkStart ELSE walk
    /\ UNCHANGED <<treeInput, memo>>
    /\ UNCHANGED <<jobVars, pagesVars>>

TreeNext ==
    \/ \E T \in TreeInputs : SetTree(T)
    \/ WalkStep
    \/ MemoDone
    \/ \E type \in DependencyTypes : ToggleFilter(type)

TreeInit == SectionIdle /\ PagesIdle /\ TreeIdle
TreeSpec == TreeInit /\ [][TreeNext]_vars

\* ------------------------------------------------------------------ claims
\* the poller has invoked a callback for job id j
Settled(j) == completeCalls[j] > 0 \/ errorCalls[j] > 0

\* the step handles the response to request r
Answered(r) == CopiesIn(r, requests') < CopiesIn(r, requests)

\* the requests the step sends
Sent == {r \in BagToSet(requests') : CopiesIn(r, requests') > CopiesIn(r, requests)}

\* C1: for a job whose checks return pending/running results and then
\* completed (no check fails), onComplete is invoked exactly once, not before
\* completed was received, and onError never.
C1_OnCompleteExactlyOnce ==
    \A j \in JobIds :
        (faults = 0 /\ jobStatus[j] # "failed") =>
            /\ completeCalls[j] <= 1
            /\ errorCalls[j] = 0
            /\ completeCalls[j] > 0 => jobStatus[j] = "completed"

\* C2: with no transport failure, a check that returns failed makes the one
\* and only onError call for its job id, with the server's text or else
\* 'Job failed', and the hook's error is that text.
C2_OnErrorExactlyOnce ==
    [][\A r \in BagToSet(requests) :
          (/\ faults = 0 /\ Answered(r)
           /\ r.kind = "getJobStatus" /\ r.result = "failed") =>
              /\ errorCalls'[r.jobId] = 1
              /\ lastErrorArg' = (IF r.error # NoError THEN r.error ELSE "Job failed")
              /\ Mounted => error' = lastErrorArg']_vars

\* C3: once a check for a job id returned completed or failed, or was
\* rejected, no interval polls that job id and no getJobStatus is sent for it.
C3_NoCheckAfterSettled ==
    [][\A j \in JobIds :
          (completeCalls'[j] > 0 \/ errorCalls'[j] > 0) =>
              /\ \A t \in timers' : t.jobId # j
              /\ Settled(j) =>
                    \A r \in Sent : ~(r.kind = "getJobStatus" /\ r.jobId = j)]_vars

\* C4: with the props unchanged and nothing failing, a pair whose tree is not
\* stored gets one triggerFetch, and one depsApi.get more than the first one
\* once its job completed.
C4_OneCrawlOneRefetch ==
    (propChanges = 0 /\ faults = 0 /\ \A j \in JobIds : jobStatus[j] # "failed") =>
        \A p \in Pairs :
            /\ triggerCalls[p] <= 1
            /\ getCalls[p] <= 1 + triggerCalls[p]

\* C5: after the poller reported an error to the section, and until the props
\* change, the section's error stays set and fetchDependencies sends nothing.
C5_NoRetryAfterError ==
    [][errorShown' =>
          /\ Mounted => sectionError' # NoError
          /\ \A r \in Sent : r.caller # "fetchDependencies"]_vars

\* C6: while the section holds the job id of a crawl of a pair, no
\* triggerFetch is sent for that pair.
C6_NoSecondCrawlWhileJobActive ==
    [][\A p \in Pairs :
          (jobId # NoJob /\ jobPair[jobId] = p) =>
              triggerCalls'[p] = triggerCalls[p]]_vars

\* C7: a response handled after the unmount, or a job-status response for a job
\* id that is no longer the section's, invokes no callback and changes none
\* of status, isPolling, error, loading, tree, jobId.
C7_StaleResponsesIgnored ==
    [][\A r \in BagToSet(requests) :
          (/\ Answered(r)
           /\ \/ ~Mounted
              \/ r.kind = "getJobStatus" /\ r.jobId # jobId) =>
              /\ completeCalls' = completeCalls
              /\ errorCalls' = errorCalls
              /\ UNCHANGED <<status, isPolling, error, loading, sectionError,
                             tree, jobId>>]_vars

\* C8: the hook owns at most one interval, none while the job id is null or
\* after the unmount, and never one of a previous job id.
C8_AtMostOneTimer ==
    /\ Cardinality(timers) <= 1
    /\ jobId = NoJob => timers = {}
    /\ lifecycle = "unmounted" => timers = {}
    /\ \A t \in timers : t.jobId = jobId

\* a second job id is polled: the interval of the first one is gone
C8_Witness ==
    /\ jobId = 2
    /\ \E t \in timers : t.jobId = 2
    /\ Settled(1)

\* C9: a render that only replaces the callbacks sends no status check and
\* creates no interval, and the callback the poller invokes is the one the
\* ref holds at that time.
C9_LatestCallbackNoRestart ==
    [][/\ (completeCalls' # completeCalls \/ errorCalls' # errorCalls) =>
             lastCallback'.invoked = onCompleteRef
       /\ (/\ Mounted /\ lifecycle' = "mounted"
           /\ renderCount' # renderCount
           /\ <<packageName', version'>> = <<packageName, version>>) =>
             (timers' = timers /\ requests' = requests)]_vars

\* a callback was invoked that is not the one of the render that started the
\* polling loop
C9_Witness ==
    /\ lastCallback.invoked > 0
    /\ lastCallback.invoked # lastCallback.captured

\* C10: a rejected getJobStatus is handled as a failed status is: isPolling
\* false, error the exception's message, onError called with it, onComplete
\* not called.
C10_RejectSettlesLikeFailed ==
    [][\A r \in BagToSet(requests) :
          (Answered(r) /\ r.kind = "getJobStatus" /\ r.result = "reject") =>
              /\ lastErrorArg' = r.error
              /\ errorCalls'[r.jobId] = errorCalls[r.jobId] + 1
              /\ completeCalls' = completeCalls
              /\ Mounted => (isPolling' = FALSE /\ error' = r.error)]_vars

\* a rejected check has been handled by the mounted hook
C10_Witness ==
    /\ Mounted
    /\ error = TransportMessage /\ lastErrorArg = TransportMessage
    /\ ~isPolling
    /\ \E j \in JobIds : errorCalls[j] > 0

\* C11: once a depsApi.get for a pair has been answered with the stored tree
\* (nothing failed, storage unchanged, no crawl), a later request for the tree
\* of that pair sends no further depsApi.get.
C11_SecondRequestFromCache ==
    [][\A p \in Pairs :
          (/\ stored = Pairs /\ faults = 0
           /\ getCalls[p] >= 1
           /\ \A r \in BagToSet(requests) :
                ~(r.kind = "depsGet" /\ <<r.packageName, r.versionToFetch>> = p)) =>
              getCalls'[p] = getCalls[p]]_vars

\* C12: while the mounted section waits for a version lookup, a tree fetch or
\* a crawl trigger, or holds a job id, it renders the loading view.
C12_LoadingWhileOutstanding ==
    (/\ Mounted
     /\ \/ jobId # NoJob
        \/ \E r \in BagToSet(requests) :
             r.kind \in {"fetchLatest", "depsGet", "triggerFetch"}) =>
        (loading \/ isPolling)

\* ---------------------------------------------------- claims on the pages
\* the request answered by the step, if the step answers one
AnsweredPage(r) ==
    /\ r \in BagToSet(pageReqs)
    /\ CopiesIn(r, pageReqs') < CopiesIn(r, pageReqs)

ListKinds == {"packagesList", "alertsList"}

\* C13: a fetchPackages / fetchAlerts that finds its key in the cache shows
\* the cached value and sends no list request; one that does not find it
\* sends the list request; and an entry appears in (or changes in) a list
\* cache only when a successful list response is handled, under the key of
\* that request and with that response as value.
C13_HitShortCircuitsMissFetches ==
    [][/\ lastFetch' # lastFetch =>
            LET ns == lastFetch'.ns
                key == lastFetch'.key
                found == HasEntry(cache, ns, key) /\ HasEntry(cache', ns, key)
            IN /\ found =>
                    /\ listCalls' = listCalls /\ pageIssued' = pageIssued
                    /\ (lastFetch'.live /\ ns = "packages") =>
                          /\ packages' = cache[ns][key].packages
                          /\ total' = cache[ns][key].total
                    /\ (lastFetch'.live /\ ns = "alerts") =>
                          /\ ElementsOf(alerts') = ElementsOf(cache[ns][key].alerts)
                          /\ alertsTotal' = cache[ns][key].total
               /\ ~found =>
                    /\ listCalls'[ns] = listCalls[ns] + 1
                    /\ \E r \in BagToSet(pageReqs') :
                         /\ r.kind \in ListKinds /\ r.key = key
                         /\ CopiesIn(r, pageReqs') > CopiesIn(r, pageReqs)
       /\ \A ns \in {"packages", "alerts"} :
            \A key \in DOMAIN cache'[ns] :
               (~HasEntry(cache, ns, key) \/ cache'[ns][key] # cache[ns][key]) =>
                   \E r \in BagToSet(pageReqs) :
                      /\ AnsweredPage(r)
                      /\ r.kind \in ListKinds /\ r.out = "ok" /\ r.key = key
                      /\ cache'[ns][key] = r.response]_vars

\* the mounted PackageList was answered from the cache
C13_Witness ==
    /\ lastFetch.hit /\ lastFetch.live /\ lastFetch.ns = "packages"
    /\ OnPackages /\ Len(packages) > 0
    /\ HasEntry(cache, "packages", lastFetch.key)

\* the cache namespace a mutation request affects
NamespaceOf(r) == IF r.kind = "updateStatus" THEN "alerts" ELSE "packages"

\* C14: when the handler of a successful create, delete or status update has
\* run, the namespace of the mutation holds no entry (invalidateAll has run
\* and nothing was stored since).
C14_MutationInvalidates ==
    [][\A r \in BagToSet(pageReqs) :
          (/\ AnsweredPage(r)
           /\ r.kind \in {"create", "delete", "updateStatus"}
           /\ r.out = "ok") =>
              DOMAIN cache'[NamespaceOf(r)] = {}]_vars

\* C15: choosing another sort option, with the status filter unchanged and
\* that page of alerts cached, sends no alertsApi.list.
C15_SortChangeNeedsNoFetch ==
    [][(/\ OnAlerts /\ route' = route
        /\ sortOption' # sortOption /\ statusFilter' = statusFilter
        /\ \E key \in DOMAIN cache["alerts"] :
              key = GetAlertsCacheKey(0, ITEMS_PER_PAGE, statusFilter,
                                      key.sortOption)) =>
           /\ listCalls' = listCalls
           /\ pageIssued' = pageIssued]_vars

\* where x stands in seq
IndexOf(seq, x) == CHOOSE i \in 1..Len(seq) : seq[i] = x

\* shown is src ordered by the sort option so: as returned for newest, back
\* to front for oldest, by descending severity (ties in src's order) for
\* severity
OrderedBy(shown, src, so) ==
    /\ Len(shown) = Len(src)
    /\ ElementsOf(shown) = ElementsOf(src)
    /\ so = "newest" => shown = src
    /\ so = "oldest" =>
          \A i \in 1..Len(src) : shown[i] = src[Len(src) + 1 - i]
    /\ so = "severity" =>
          \A i, j \in 1..Len(shown) :
             i < j =>
                /\ shown[i].severity >= shown[j].severity
                /\ shown[i].severity = shown[j].severity =>
                      IndexOf(src, shown[i]) < IndexOf(src, shown[j])

\* the alerts in the order the list API returns them
AsReturned(arr) ==
    \A i, j \in 1..Len(arr) : i < j => arr[i].id < arr[j].id

\* C16: the alerts shown by fetchAlerts are the cached or returned alerts
\* ordered by the sort option of that fetch, on the cache-hit path and on the
\* cache-miss path; an entry of the alerts cache is the response as the API
\* returned it, and a cache hit leaves the cache as it was.
C16_SortOnBothPathsCacheUnsorted ==
    [][/\ (lastFetch' # lastFetch /\ lastFetch'.ns = "alerts"
           /\ lastFetch'.hit /\ lastFetch'.live) =>
             /\ OrderedBy(alerts', cache["alerts"][lastFetch'.key].alerts,
                          lastFetch'.key.sortOption)
             /\ cache' = cache
       /\ \A r \in BagToSet(pageReqs) :
            (/\ AnsweredPage(r) /\ r.kind = "alertsList" /\ r.out = "ok"
             /\ Live("alerts", r.inst)) =>
               /\ OrderedBy(alerts', r.response.alerts, r.closure.sortOption)
               /\ cache'["alerts"][r.key] = r.response
       /\ \A key \in DOMAIN cache'["alerts"] :
            AsReturned(cache'["alerts"][key].alerts)]_vars

\* the mounted AlertsDashboard shows a cached page sorted by severity
C16_Witness ==
    /\ OnAlerts
    /\ lastFetch.ns = "alerts" /\ lastFetch.hit /\ lastFetch.live
    /\ lastFetch.key.sortOption = "severity"
    /\ Len(alerts) = 3 /\ alerts[1].id = 2 /\ alerts[2].id = 1
    /\ HasEntry(cache, "alerts", lastFetch.key)

\* the namespaces other than ns
Others(ns) == Namespaces \ {ns}

RECURSIVE BucketLengths(_, _)
BucketLengths(g, depths) ==
    IF depths = {} THEN 0
    ELSE LET d == CHOOSE x \in depths : TRUE
         IN Len(g[d]) + BucketLengths(g, depths \ {d})

\* C18: for every tree, the total of extractStats equals the sum of the
\* lengths of the buckets of flattenByDepth before any filtering: both count
\* edges, so a package under several parents or edge types counts each time.
C18_TotalIsSumOfBuckets ==
    walk.pc = "done" =>
        LET g == GroupByDepth(walk.emitted)
        IN memo.stats.total = BucketLengths(g, DOMAIN g)
\* a tree whose two packages hang on four edges has been processed
C18_Witness ==
    /\ walk.pc = "done"
    /\ treeInput = SharedChild
    /\ memo.stats.total = 4
    /\ Cardinality({walk.emitted[i].name : i \in 1..Len(walk.emitted)}) = 2

\* C19: the filtered mapping holds only entries whose type is selected and
\* no empty bucket; with no type selected it is the empty mapping, a state
\* the filter buttons can bring about.
C19_FilterKeepsSelectedTypes ==
    walk.pc = "done" =>
        /\ \A d \in DOMAIN memo.groupedDeps :
              /\ memo.groupedDeps[d] # <<>>
              /\ \A i \in 1..Len(memo.groupedDeps[d]) :
                    memo.groupedDeps[d][i].type \in Range(filterTypes)
        /\ filterTypes = <<>> => DOMAIN memo.groupedDeps = {}
\* every type has been deselected on a tree that has dependencies
C19_Witness ==
    /\ walk.pc = "done"
    /\ filterTypes = <<>>
    /\ memo.stats.total > 0
    /\ DOMAIN memo.groupedDeps = {}

RECURSIVE Pow(_, _)
Pow(b, n) == IF n = 0 THEN 1 ELSE b * Pow(b, n - 1)
RECURSIVE FrameBound(_, _)
\* the nodes a traversal of a tree with e edges can take up above depth d
FrameBound(e, d) == IF d = 0 THEN 0 ELSE Pow(e, d - 1) + FrameBound(e, d - 1)

\* C20: on every input, also one deeper than the ceiling or cyclic, the
\* traversals end: no entry lies below the ceiling, no node at the ceiling is
\* descended into, the number of turns is bounded by the ceiling, and at the
\* end every child of a node above the ceiling has been emitted.
C20_TraversalsEndAtCeiling ==
    /\ \A i \in 1..Len(walk.emitted) : walk.emitted[i].depth <= DepthCeiling
    /\ \A i \in 1..Len(walk.stack) : walk.stack[i].depth < DepthCeiling
    /\ walk.steps <= FrameBound(Len(treeInput.edges), DepthCeiling)
    /\ walk.pc = "done" =>
          /\ memo.stats.maxDepth <= DepthCeiling
          /\ \A i \in 1..Len(treeInput.edges) :
                treeInput.edges[i][1] = 0 =>
                   \E j \in 1..Len(walk.emitted) :
                      /\ walk.emitted[j].name = treeInput.edges[i][3]
                      /\ walk.emitted[j].depth = 1
          /\ \A j \in 1..Len(walk.emitted) :
                walk.emitted[j].depth < DepthCeiling =>
                   \A i \in 1..Len(treeInput.edges) :
                      treeInput.edges[i][1] = walk.emitted[j].name =>
                         \E k \in 1..Len(walk.emitted) :
                            /\ walk.emitted[k].name = treeInput.edges[i][3]
                            /\ walk.emitted[k].type =
                                  TypeOfKey(treeInput.edges[i][2])
                            /\ walk.emitted[k].depth
                                  = walk.emitted[j].depth + 1
\* the traversal of the cyclic tree has ended with an entry at the ceiling
C20_Witness ==
    /\ walk.pc = "done"
    /\ treeInput = Cyclic
    /\ \E i \in 1..Len(walk.emitted) : walk.emitted[i].depth = DepthCeiling
    /\ memo.stats.maxDepth = DepthCeiling

\* how many entries of seq satisfy Test
CountWhere(seq, Test(_)) == Len(SelectSeq(seq, Test))

\* how often node n was visited at depth d: the root once at depth 0, any
\* node as often as it was emitted at depth d
Occurrences(n, d) ==
    (IF n = 0 /\ d = 0 THEN 1 ELSE 0)
    + CountWhere(walk.emitted, LAMBDA x : x.name = n /\ x.depth = d)

RECURSIVE SumOccurrences(_, _)
\* the visits at depth d of the parents of the edges es
SumOccurrences(es, d) ==
    IF es = <<>> THEN 0
    ELSE Occurrences(Head(es)[1], d) + SumOccurrences(Tail(es), d)

\* C21: flattenByDepth emits one entry per edge of every visited parent: the
\* entries for child c with type t at depth d + 1 are as many as the visits at
\* depth d of the parents that list c under the key of t, so a child listed
\* under two keys of one parent is emitted once per key, and the root's
\* children have depth 1.
C21_OneEntryPerEdge ==
    walk.pc = "done" =>
        /\ \A i \in 1..Len(walk.emitted) : walk.emitted[i].depth >= 1
        /\ \A c \in NodeIds, t \in DependencyTypes, d \in 0..(DepthCeiling - 1) :
              CountWhere(walk.emitted,
                         LAMBDA x : x.name = c /\ x.type = t /\ x.depth = d + 1)
              = SumOccurrences(
                   SelectSeq(treeInput.edges,
                             LAMBDA e : e[3] = c /\ TypeOfKey(e[2]) = t), d)
\* the child the root lists as dependency and as peer dependency was emitted
\* at depth 1 once for each
C21_Witness ==
    /\ walk.pc = "done"
    /\ treeInput = SharedChild
    /\ CountWhere(walk.emitted,
                  LAMBDA x : x.name = 1 /\ x.type = "prod" /\ x.depth = 1) = 1
    /\ CountWhere(walk.emitted,
                  LAMBDA x : x.name = 1 /\ x.type = "peer" /\ x.depth = 1) = 1

\* the request failed: the transport rejected it, the registry answered
\* without success or without a version, or the job server reported failed
FailedRequest(r) ==
    \/ r.result \in {"reject", "notok", "empty"}
    \/ r.kind = "getJobStatus" /\ r.result = "failed"

\* C22: when the mounted section or its poller handles a failed request
\* (other than a tree fetch that reports not found), the section shows a
\* non-null error afterwards; so does a re-fetch that fails after the job
\* completed.
C22_FailuresSurface ==
    [][\A r \in BagToSet(requests) :
          (Mounted /\ Answered(r) /\ FailedRequest(r)) =>
              sectionError' # NoError]_vars

\* C23: when fetchDependencies handles a tree fetch that reports not found,
\* depsApi.triggerFetch is called for that pair and no error is set; when it
\* handles a version lookup or a tree fetch that failed in any other way, no
\* triggerFetch is called and the mounted section has its error set and
\* loading cleared.
C23_NotFoundTriggersOtherFailuresShow ==
    [][\A r \in BagToSet(requests) :
          (Answered(r) /\ r.caller = "fetchDependencies") =>
              /\ (r.kind = "depsGet" /\ r.result = "not found") =>
                    /\ triggerCalls'[<<r.packageName, r.versionToFetch>>]
                          = triggerCalls[<<r.packageName, r.versionToFetch>>] + 1
                    /\ \E t \in Sent : t.kind = "triggerFetch"
                    /\ sectionError' = sectionError
              /\ (/\ r.kind \in {"fetchLatest", "depsGet"}
                  /\ r.result \in {"reject", "notok", "empty"}) =>
                    /\ triggerCalls' = triggerCalls
                    /\ \A t \in Sent : t.kind # "triggerFetch"
                    /\ Mounted => (sectionError' # NoError /\ ~loading')]_vars
\* a crawl was triggered for a tree that was not found, and a later lookup
\* that failed left its message and no loading view
C23_Witness ==
    /\ Mounted
    /\ \E p \in Pairs : triggerCalls[p] = 1
    /\ sectionError = NpmNotOkMessage
    /\ ~loading
    /\ \A p \in Pairs : triggerCalls[p] <= 1

\* the status checks a step sends
SentChecks == {r \in Sent : r.kind = "getJobStatus"}

\* the status checks for job id j that are in flight
ChecksInFlight(j) ==
    BagCardinality([r \in {x \in BagToSet(requests) :
                             x.kind = "getJobStatus" /\ x.jobId = j}
                      |-> CopiesIn(r, requests)])

\* C24: the step that gives the hook a non-null job id sends one status check
\* for it at once, creates its interval and sets isPolling, status 'pending'
\* and error null; every other status check is the one check of a tick of the
\* interval of the unchanged job id; without a job id none is sent.
C24_ImmediateCheckThenOnePerTick ==
    [][/\ (jobId' # jobId /\ jobId' # NoJob) =>
             /\ \E r \in SentChecks :
                   /\ SentChecks = {r}
                   /\ r.jobId = jobId'
                   /\ CopiesIn(r, requests') = CopiesIn(r, requests) + 1
             /\ \E t \in timers' : t.jobId = jobId'
             /\ isPolling' /\ status' = "pending" /\ error' = NoError
       /\ (jobId' = jobId /\ SentChecks # {}) =>
             /\ jobId # NoJob
             /\ \E r \in SentChecks :
                   /\ Sent = {r}
                   /\ r.jobId = jobId
                   /\ CopiesIn(r, requests') = CopiesIn(r, requests) + 1
                   /\ \E t \in timers : t.jobId = r.jobId
             /\ UNCHANGED <<hookVars, sectionVars>>
       /\ (jobId' = NoJob) => SentChecks = {}]_vars
\* the immediate check of job 1 and the check of a tick are both in flight
C24_Witness ==
    /\ Mounted /\ jobId = 1 /\ isPolling
    /\ \E t \in timers : t.jobId = 1
    /\ ChecksInFlight(1) >= 2

\* ------------------------------------------- a job that never ends
\* setInterval fires (useJobPolling.ts 76): as TimerTick, for a job whose
\* checks are answered without failure; the checks are limited by how many
\* are unanswered, not by how many were sent
TimerTickUncounted(t) ==
    /\ t \in timers
    /\ ChecksInFlight(t.jobId) < MaxInFlight
    /\ requests' = requests (+) SetToBag({PollRequest(t.jobId, t.cb, "ok")})
    /\ UNCHANGED <<hookVars, sectionVars, serverVars, issued, faults,
                   historyVars>>
    /\ UNCHANGED <<pagesVars, treeVars>>

\* the section stays mounted and the crawl it triggered stays pending or
\* running
PollingNext ==
    \/ Mount
    \/ Rerender
    \/ \E r \in BagToSet(requests) : FetchLookupOk(r)
    \/ \E r \in BagToSet(requests) : FetchGetNotFound(r)
    \/ \E r \in BagToSet(requests) : FetchTriggerOk(r)
    \/ \E j \in JobIds : JobRun(j)
    \/ \E t \in timers : TimerTickUncounted(t)
    \/ \E r \in BagToSet(requests) : PollProgress(r)

\* the interval keeps firing and the status checks keep being answered
PollingSpec ==
    /\ Init /\ [][PollingNext]_vars
    /\ WF_vars(\E t \in timers : TimerTickUncounted(t))
    /\ WF_vars(\E r \in BagToSet(requests) : PollProgress(r))

\* C25: while the section stays mounted with the job id it holds and every
\* status check is answered pending or running, the poller keeps isPolling
\* true and its interval, invokes no callback, and always sends another
\* status check later.
C25_PollsUntilTerminal ==
    /\ [](jobId # NoJob =>
            /\ isPolling
            /\ \E t \in timers : t.jobId = jobId
            /\ completeCalls[jobId] = 0 /\ errorCalls[jobId] = 0)
    /\ ([]<>(jobId = NoJob) \/ []<><<SentChecks # {}>>_vars)
\* a check of job 1 was answered running and the next one is in flight
C25_Witness ==
    /\ Mounted /\ jobId = 1 /\ isPolling /\ status = "running"
    /\ ChecksInFlight(1) >= 1

\* C26: a depsApi.get or depsApi.triggerFetch always carries a resolved
\* version; when the caller (fetchDependencies or onComplete) has no pinned
\* version, its depsApi.get is sent by the step that handles its successful
\* latest-version lookup, for the version that lookup returned, and its
\* triggerFetch by the step that handles that get.
C26_LookupBeforeFetch ==
    [][\A r \in Sent :
          r.kind \in {"depsGet", "triggerFetch"} =>
              /\ r.versionToFetch # NoVersion
              /\ r.version = NoVersion =>
                    \E q \in BagToSet(requests) :
                       /\ Answered(q)
                       /\ q.caller = r.caller
                       /\ q.packageName = r.packageName
                       /\ r.kind = "depsGet" =>
                             /\ q.kind = "fetchLatest" /\ q.result = "ok"
                             /\ r.versionToFetch = LatestVersion(q.packageName)
                       /\ r.kind = "triggerFetch" =>
                             /\ q.kind = "depsGet"
                             /\ q.versionToFetch = r.versionToFetch]_vars
\* the re-fetch after the job completed, for a package without pinned
\* version, is in flight with the version the registry returned
C26_Witness ==
    \E r \in BagToSet(requests) :
        /\ r.caller = "onComplete" /\ r.kind = "depsGet"
        /\ r.version = NoVersion
        /\ r.versionToFetch = LatestVersion(r.packageName)

\* C27: the tree functions do not raise on a malformed node: the useMemo
\* never ends in an exception, and a node without children record is emitted
\* with no children and counted with none.
C27_MalformedNodesAreLeaves ==
    /\ walk.pc # "raised"
    /\ walk.pc = "done" =>
          \A i \in 1..Len(walk.emitted) :
             walk.emitted[i].name \in treeInput.bare =>
                walk.emitted[i].childCount = 0

\* C28: the childCount of every emitted node is the number of its direct
\* children under the four dependency keys: grandchildren and the
\* maintainers list are not counted.
C28_CountsDirectChildrenOnly ==
    walk.pc = "done" =>
        \A i \in 1..Len(walk.emitted) :
           walk.emitted[i].childCount
              = Cardinality({k \in 1..Len(treeInput.edges) :
                               treeInput.edges[k][1] = walk.emitted[i].name})
\* the node with one child, one grandchild and a maintainers list was emitted
\* with child count 1
C28_Witness ==
    /\ walk.pc = "done"
    /\ treeInput = WithMaintainers
    /\ \E i \in 1..Len(walk.emitted) :
          /\ walk.emitted[i].name = 1
          /\ walk.emitted[i].name \in treeInput.maintainers
          /\ walk.emitted[i].childCount = 1

\* the mutation requests still to be handled
PendingMutation(kind, arg) ==
    \E r \in BagToSet(pageReqs) : r.kind = kind /\ r.arg = arg

\* C29: once the handler of a successful mutation has invalidated the cache,
\* the cache holds no list response from before the mutation: no cached page
\* of packages lists a package whose deletion has been handled, and no cached
\* page of alerts shows an alert with another status than the one its handled
\* update gave it.
C29_NoStaleListAfterInvalidate ==
    /\ \A pkg \in deleted :
          ~PendingMutation("delete", pkg) =>
             \A key \in DOMAIN cache["packages"] :
                pkg \notin ElementsOf(cache["packages"][key].packages)
    /\ \A a \in AlertIds :
          ~PendingMutation("updateStatus", a) =>
             \A key \in DOMAIN cache["alerts"] :
                \A i \in 1..Len(cache["alerts"][key].alerts) :
                   cache["alerts"][key].alerts[i].id = a =>
                      cache["alerts"][key].alerts[i].status = alertStatus[a]

\* C30: once the hook's status is completed or failed, it keeps that status
\* and isPolling stays false in every step that leaves the job id unchanged,
\* also when a pending or running answer arrives late.
C30_SettledStaysSettled ==
    [][(/\ status \in {"completed", "failed"}
        /\ ~isPolling
        /\ jobId' = jobId) =>
           (status' = status /\ ~isPolling')]_vars

\* C31: for no job id are both onComplete and onError invoked, in whatever
\* order the answers to overlapping status checks arrive.
C31_NeverBothCallbacks ==
    \A j \in JobIds : ~(completeCalls[j] > 0 /\ errorCalls[j] > 0)

\* the pair the section's props stand for
CurrentPair ==
    <<packageName,
      IF version = NoVersion THEN LatestVersion(packageName) ELSE version>>

\* nothing of the section is outstanding: no request, no job, no interval
AllSettled == requests = EmptyBag /\ jobId = NoJob /\ timers = {}

\* C32: once all outstanding work has settled, the tree the mounted section
\* shows (no loading view, no error) is the tree of its current
\* (packageName, version), also after the props changed while a fetch or a
\* crawl of the previous pair was outstanding.
C32_SettledTreeIsCurrentPair ==
    (/\ Mounted /\ AllSettled
     /\ ~loading /\ sectionError = NoError /\ tree # NoTree) =>
        tree = CurrentPair

\* the create promise of the add with this id has not settled yet
CreatePending(id) ==
    \E r \in BagToSet(pageReqs) : r.kind = "create" /\ r.arg.id = id

\* the ids of the optimistic entries in the list
OptimisticIds(list) == {list[i].id : i \in 1..Len(list)}

\* C33: an optimistic entry added by handleOptimisticAdd is removed only
\* after its own creation promise settled (on success it is removed and the
\* list refetched, on failure it is marked and removed after the display
\* delay): while PackageList stays mounted, no step takes an entry out of
\* the optimistic list while that entry's create request is still pending.
C33_EntryOutlivesItsPromise ==
    [][(route' = "packages" /\ instance' = instance) =>
         \A id \in OptimisticIds(optimisticPackages) :
            CreatePending(id) => id \in OptimisticIds(optimisticPackages')]_vars

\* packagesApi.list for the query on the server as it was after c creations
\* and with the packages of d deleted
ListPackagesThen(c, d, skip, limit, s) ==
    LET held == (1..(BasePackages + c)) \ d
        all == SortedSeq({n \in held : s = "" \/ n \in SearchHits})
    IN Slice(all, skip, limit)

\* the responses the API has had for PackageList's current page and search
ResponsesForCurrentQuery ==
    {ListPackagesThen(c, d, (currentPage - 1) * ITEMS_PER_PAGE,
                      ITEMS_PER_PAGE, debouncedSearch) :
        c \in 0..created, d \in SUBSET deleted}

\* the ids of the alerts on display
DisplayedAlertIds == {alerts[i].id : i \in 1..Len(alerts)}

\* C34: once no request is outstanding, the items PackageList displays are a
\* response of the API for the current page and search, and AlertsDashboard
\* under the filter 'all' displays every alert and under another filter only
\* alerts the server has in that status, whatever the order in which the
\* earlier requests were answered.
C34_SettledListIsCurrentQuery ==
    /\ (/\ OnPackages /\ pageReqs = EmptyBag
        /\ ~listLoading /\ listError = NoError)
           => packages \in ResponsesForCurrentQuery
    /\ (/\ OnAlerts /\ pageReqs = EmptyBag
        /\ ~alertsLoading /\ alertsError = NoError)
           => IF statusFilter = "all" THEN DisplayedAlertIds = AlertIds
              ELSE \A a \in DisplayedAlertIds : alertStatus[a] = statusFilter

\* C35: when packagesApi.delete fails in confirmDelete (the only mutation so
\* far, PackageList still mounted), the step that handles the failure leaves
\* the package in the displayed list exactly once, total at the value it had
\* when confirmDelete started, and the packages cache as it was.
C35_FailedDeleteUndone ==
    [][\A r \in BagToSet(pageReqs) :
          (/\ DeleteFailed(r)
           /\ Live("packages", r.inst) /\ mutations = 1)
             => /\ Cardinality({i \in 1..Len(packages') :
                                   packages'[i] = r.arg}) = 1
                /\ total' = totalBefore
                /\ cache' = cache]_vars

\* every alert on display shows the status the server holds for it
DisplayedStatusIsServers ==
    \A i \in 1..Len(alerts) : alerts[i].status = alertStatus[alerts[i].id]

\* C36: when alertsApi.updateStatus fails in handleStatusChange while
\* AlertsDashboard is mounted, the step that handles the failure empties the
\* alerts cache and sends alertsApi.list; and once nothing is outstanding
\* and no list error is shown, every displayed alert has the server's status
\* again (no update has succeeded, so the server's values never changed).
C36_FailedUpdateReverted ==
    [][/\ \A r \in BagToSet(pageReqs) :
             (UpdateFailed(r) /\ Live("alerts", r.inst))
                => /\ cache'[UseAlertsCache] = <<>>
                   /\ listCalls'[UseAlertsCache] = listCalls[UseAlertsCache] + 1
       /\ (/\ OnAlerts' /\ pageReqs' = EmptyBag
           /\ ~alertsLoading' /\ alertsError' = NoError
           /\ alertStatus' = [a \in AlertIds |-> "open"])
             => DisplayedStatusIsServers']_vars
\* the failure of an update was handled: the alert still shows the optimistic
\* status, the alerts cache is empty and the refetch is in flight
C36_Witness ==
    /\ OnAlerts /\ ~DisplayedStatusIsServers
    /\ \A r \in BagToSet(pageReqs) : r.kind # "updateStatus"
    /\ \E r \in BagToSet(pageReqs) : r.kind = "alertsList" /\ r.inst = instance
    /\ cache[UseAlertsCache] = <<>>
    /\ alertStatus = [a \in AlertIds |-> "open"]

\* C37: when a package delete or an alert status update fails while its page
\* is mounted, the failure message is on display once the handler has run
\* its catch and started the recovery refetch; a successful answer of that
\* refetch never sets the error, so what this step leaves is what is shown
\* after the refetch has completed.
C37_FailureMessageSurvivesRefetch ==
    [][\A r \in BagToSet(pageReqs) :
          /\ (DeleteFailed(r) /\ Live("packages", r.inst))
                => listError' # NoError
          /\ (UpdateFailed(r) /\ Live("alerts", r.inst))
                => alertsError' # NoError]_vars

\* C38: while PackageList is mounted, currentPage lies within
\* 1..max(1, ceil(total / ITEMS_PER_PAGE)), whatever pages were visited,
\* searches typed and packages added or deleted.
C38_CurrentPageWithinPages ==
    OnPackages => currentPage \in 1..Max(1, TotalPages(total))

====
